---- MODULE Spec2Model ----
(***************************************************************************)
(* Match-3 engine of spoil-much: grid model (utils/boardUtils.ts), match   *)
(* detector and effect resolver (utils/matchDetection.ts) and the cascade  *)
(* driver / combo fusion engine (hooks/useGameLogic.ts).                   *)
(*                                                                         *)
(* A Block is modelled by its value fields color, specialType, obstacle.   *)
(* The id field is a render key and row/col repeat the cell's position;    *)
(* they carry no engine semantics and are left out.  A colour is its index *)
(* 1..NUM_COLORS into COLORS; 0 stands for the empty string ''.            *)
(***************************************************************************)
EXTENDS Integers, Sequences, FiniteSets, TLC

GRID_SIZE == 8
NUM_COLORS == 6

Idx == 0 .. (GRID_SIZE - 1)
COLORS == 1 .. NUM_COLORS
EMPTY == 0

NoObstacle == [type |-> "none", health |-> 0]
Pos(r, c) == [row |-> r, col |-> c]
AllPos == {Pos(r, c) : r \in Idx, c \in Idx}
Blk(color, special, obs) == [color |-> color, specialType |-> special, obstacle |-> obs]
EmptyBlock == Blk(EMPTY, "none", NoObstacle)

inBounds(r, c) == r >= 0 /\ r < GRID_SIZE /\ c >= 0 /\ c < GRID_SIZE

isBlocker(block) == block.obstacle.type = "blocker"
hasObstacle(block) == block.obstacle.type # "none"

\* boardUtils.ts canSwap / canMatch
canSwap(block) == block.color # EMPTY /\ ~isBlocker(block)
canMatch(block) == block.color # EMPTY /\ ~isBlocker(block)

\* boardUtils.ts areAdjacent
Abs(x) == IF x < 0 THEN -x ELSE x
areAdjacent(row1, col1, row2, col2) ==
  LET rowDiff == Abs(row1 - row2)
      colDiff == Abs(col1 - col2)
  IN (rowDiff = 1 /\ colDiff = 0) \/ (rowDiff = 0 /\ colDiff = 1)

\* boardUtils.ts swapBlocks: a new board with the two blocks exchanged
\* (every field of the block travels, the obstacle included).
swapBlocks(b, row1, col1, row2, col2) ==
  LET temp == b[row1][col1]
      b1 == [b EXCEPT ![row1][col1] = b[row2][col2]]
  IN [b1 EXCEPT ![row2][col2] = temp]

(***************************************************************************)
(* findMatches                                                             *)
(***************************************************************************)
canBlockMatch(b, r, c) ==
  /\ inBounds(r, c)
  /\ b[r][c].color # EMPTY
  /\ b[r][c].obstacle.type # "blocker"

\* cell number pos of line number line: a row is scanned by column, a
\* column by row
LineCell(dir, line, pos) ==
  IF dir = "horizontal" THEN Pos(line, pos) ELSE Pos(pos, line)

LineOk(b, dir, line, pos) ==
  IF dir = "horizontal" THEN canBlockMatch(b, line, pos) ELSE canBlockMatch(b, pos, line)

LineColor(b, dir, line, pos) ==
  IF dir = "horizontal" THEN b[line][pos].color ELSE b[pos][line].color

\* the inner while loop: first index past the run of color starting at pos
RECURSIVE RunEnd(_, _, _, _, _)
RunEnd(b, dir, line, endPos, color) ==
  IF endPos < GRID_SIZE /\ LineOk(b, dir, line, endPos) /\ LineColor(b, dir, line, endPos) = color
  THEN RunEnd(b, dir, line, endPos + 1, color)
  ELSE endPos

SeqOfRange(dir, line, from, to) ==
  [i \in 1 .. (to - from) |-> LineCell(dir, line, from + i - 1)]

Unmatched(s, matched) == SelectSeq(s, LAMBDA p : p \notin matched)

\* One line of the scan loop, from index pos on.  Every run found yields a
\* record whose blocks are the cells of the run not already in matched (the
\* code pushes a cell only if !matched.has(key)); the runs of one pass are
\* disjoint, so only the matched set of the earlier pass filters anything.
RECURSIVE ScanLine(_, _, _, _, _)
ScanLine(b, dir, line, pos, matched) ==
  IF pos >= GRID_SIZE - 2 THEN << >>
  ELSE IF ~LineOk(b, dir, line, pos) THEN ScanLine(b, dir, line, pos + 1, matched)
  ELSE LET color == LineColor(b, dir, line, pos) IN
       IF /\ LineOk(b, dir, line, pos + 1)
          /\ LineOk(b, dir, line, pos + 2)
          /\ LineColor(b, dir, line, pos + 1) = color
          /\ LineColor(b, dir, line, pos + 2) = color
       THEN LET endPos == RunEnd(b, dir, line, pos, color)
                run == [blocks |-> Unmatched(SeqOfRange(dir, line, pos, endPos), matched),
                        direction |-> dir]
            IN << run >> \o ScanLine(b, dir, line, endPos, matched)
       ELSE ScanLine(b, dir, line, pos + 1, matched)

RECURSIVE ScanLines(_, _, _, _)
ScanLines(b, dir, line, matched) ==
  IF line >= GRID_SIZE THEN << >>
  ELSE ScanLine(b, dir, line, 0, matched) \o ScanLines(b, dir, line + 1, matched)

RECURSIVE Flatten(_)
Flatten(runs) ==
  IF runs = << >> THEN << >> ELSE Head(runs).blocks \o Flatten(Tail(runs))

SeqToSet(s) == {s[i] : i \in 1 .. Len(s)}

\* the member of a one-element set; {e(x) : x \in {v}} names the value v as x
\* so that it is computed once
The(S) == CHOOSE x \in S : TRUE

\* runs of the horizontal pass, then of the vertical pass (which skips the
\* cells the horizontal pass has put into matched)
HorizontalRuns(b) == ScanLines(b, "horizontal", 0, {})
VerticalRuns(b, hRuns) == ScanLines(b, "vertical", 0, SeqToSet(Flatten(hRuns)))

\* a run kept only from four blocks on
KeepMatchesOverThree(runs) == SelectSeq(runs, LAMBDA m : Len(m.blocks) > 3)
\* a run becomes a match only if match.blocks.length >= 3
KeepMatches(runs) == SelectSeq(runs, LAMBDA m : Len(m.blocks) >= 3)

\* the cells visited by the two passes, in visiting order (a cell of a
\* vertical run too short to become a match is visited all the same)
IsRocket(t) == t = "rocket-h" \/ t = "rocket-v"

rocketActivationsOf(b, visited) ==
  LET s == SelectSeq(visited, LAMBDA p : IsRocket(b[p.row][p.col].specialType))
  IN [i \in 1 .. Len(s) |->
        [row |-> s[i].row, col |-> s[i].col, type |-> b[s[i].row][s[i].col].specialType]]

rainbowActivationsOf(b, visited) ==
  LET s == SelectSeq(visited, LAMBDA p : b[p.row][p.col].specialType = "rainbow")
  IN [i \in 1 .. Len(s) |->
        [row |-> s[i].row, col |-> s[i].col, targetColor |-> b[s[i].row][s[i].col].color]]

bombActivationsOf(b, visited) ==
  LET s == SelectSeq(visited, LAMBDA p : b[p.row][p.col].specialType = "bomb")
  IN [i \in 1 .. Len(s) |-> [row |-> s[i].row, col |-> s[i].col]]

\* obstacle damage queued for the visited cells themselves
matchedObstacleDamage(b, visited) ==
  LET s == SelectSeq(visited, LAMBDA p : hasObstacle(b[p.row][p.col]) /\ ~isBlocker(b[p.row][p.col]))
  IN [i \in 1 .. Len(s) |->
        [row |-> s[i].row, col |-> s[i].col,
         type |-> b[s[i].row][s[i].col].obstacle.type,
         destroyed |-> b[s[i].row][s[i].col].obstacle.health <= 1]]

\* first occurrences of s, in order, leaving out the members of seen
RECURSIVE Dedupe(_, _)
Dedupe(s, seen) ==
  IF s = << >> THEN << >>
  ELSE IF Head(s) \in seen THEN Dedupe(Tail(s), seen)
  ELSE << Head(s) >> \o Dedupe(Tail(s), seen \cup {Head(s)})

\* const directions = [[-1, 0], [1, 0], [0, -1], [0, 1]]
Neighbours4(p) ==
  << Pos(p.row - 1, p.col), Pos(p.row + 1, p.col), Pos(p.row, p.col - 1), Pos(p.row, p.col + 1) >>

RECURSIVE NeighbourSeq(_)
NeighbourSeq(blocks) ==
  IF blocks = << >> THEN << >> ELSE Neighbours4(Head(blocks)) \o NeighbourSeq(Tail(blocks))

\* ice next to a block of a match, not yet in damagedObstacles
iceDamage(b, matches, damagedObstacles) ==
  LET near == SelectSeq(NeighbourSeq(Flatten(matches)),
                        LAMBDA p : inBounds(p.row, p.col) /\ b[p.row][p.col].obstacle.type = "ice")
      s == Dedupe(near, damagedObstacles)
  IN [i \in 1 .. Len(s) |->
        [row |-> s[i].row, col |-> s[i].col, type |-> "ice",
         destroyed |-> b[s[i].row][s[i].col].obstacle.health <= 1]]

\* the (2d+1) x (2d+1) neighbourhood of (r, c), clipped to the board
Area(r, c, d) ==
  {Pos(r + dr, c + dc) : dr \in (-d) .. d, dc \in (-d) .. d} \cap AllPos

RowCells(r) == {Pos(r, c) : c \in Idx}
ColCells(c) == {Pos(r, c) : r \in Idx}

\* positions that the matches, rockets, rainbows and bombs will clear
willBeClearedOf(b, matches, rockets, rainbows, bombs) ==
  SeqToSet(Flatten(matches))
  \cup UNION {IF rockets[i].type = "rocket-h" THEN RowCells(rockets[i].row)
              ELSE ColCells(rockets[i].col) : i \in 1 .. Len(rockets)}
  \cup UNION {{p \in AllPos : b[p.row][p.col].color = rainbows[i].targetColor} :
              i \in 1 .. Len(rainbows)}
  \cup UNION {Area(bombs[i].row, bombs[i].col, 1) : i \in 1 .. Len(bombs)}

\* stable sort, first element: the best member first met in row-major order
RowMajor(p) == p.row * GRID_SIZE + p.col
FirstBest(score) ==
  The({CHOOSE p \in DOMAIN val :
         \A q \in DOMAIN val : val[p] > val[q] \/ (val[p] = val[q] /\ RowMajor(p) <= RowMajor(q)) :
         val \in {score}})

specialPriority(t) == IF t = "rainbow" THEN 3 ELSE IF t = "bomb" THEN 2 ELSE 1

\* the score that also counts the neighbours bound to be cleared
neighbourScoreCountingCleared(b, p, willBeCleared) ==
  LET n == Neighbours4(p)
      count == Cardinality({i \in 1 .. 4 :
                 /\ inBounds(n[i].row, n[i].col)
                 /\ b[n[i].row][n[i].col].color = b[p.row][p.col].color})
  IN 10 * count + p.row

\* score of a priority-2 candidate, times 10 (count + r * 0.1 in the code)
neighbourScore10(b, p, willBeCleared) ==
  LET n == Neighbours4(p)
      count == Cardinality({i \in 1 .. 4 :
                 /\ inBounds(n[i].row, n[i].col)
                 /\ b[n[i].row][n[i].col].color = b[p.row][p.col].color
                 /\ n[i] \notin willBeCleared})
  IN 10 * count + p.row

\* target of one propeller given the positions already bound to be cleared
propellerTarget(b, willBeCleared) ==
  LET free == AllPos \ willBeCleared
      specialTargets == {p \in free : b[p.row][p.col].specialType \notin {"none", "propeller"}}
      candidates == {p \in free : b[p.row][p.col].color # EMPTY
                                  /\ neighbourScore10(b, p, willBeCleared) > 0}
      anyLeft == {p \in free : b[p.row][p.col].color # EMPTY}
  IN IF specialTargets # {}
     THEN FirstBest([p \in specialTargets |-> specialPriority(b[p.row][p.col].specialType)])
     ELSE IF candidates # {}
     THEN FirstBest([p \in candidates |-> neighbourScore10(b, p, willBeCleared)])
     ELSE IF anyLeft # {}
     THEN FirstBest([p \in anyLeft |-> p.row * GRID_SIZE - p.col])
     ELSE Pos(GRID_SIZE \div 2, GRID_SIZE \div 2)

\* the propellers of the matches in match order; each target's 3x3 joins
\* willBeCleared before the next propeller is resolved
RECURSIVE propellerActivationsOf(_, _, _)
propellerActivationsOf(b, props, willBeCleared) ==
  IF props = << >> THEN << >>
  ELSE The({The({<< [row |-> Head(props).row, col |-> Head(props).col,
                     targetRow |-> t.row, targetCol |-> t.col] >>
                 \o propellerActivationsOf(b, Tail(props), cleared \cup Area(t.row, t.col, 1)) :
                 t \in {propellerTarget(b, cleared)}}) :
            cleared \in {willBeCleared}})

\* blocks shared by a horizontal and a vertical match, hMatch-major
RECURSIVE sharedWith(_, _)
sharedWith(hMatch, vMatches) ==
  IF vMatches = << >> THEN << >>
  ELSE SelectSeq(hMatch.blocks, LAMBDA p : p \in SeqToSet(Head(vMatches).blocks))
       \o sharedWith(hMatch, Tail(vMatches))

RECURSIVE intersectionSeq(_, _)
intersectionSeq(hMatches, vMatches) ==
  IF hMatches = << >> THEN << >>
  ELSE sharedWith(Head(hMatches), vMatches) \o intersectionSeq(Tail(hMatches), vMatches)

\* the middle taken as blocks[Math.floor((length - 1) / 2)]
midBlockLow(match) == match.blocks[((Len(match.blocks) - 1) \div 2) + 1]
\* match.blocks[Math.floor(match.blocks.length / 2)]
midBlock(match) == match.blocks[(Len(match.blocks) \div 2) + 1]

rainbowCreationsOf(b, matches, hMatches, vMatches) ==
  LET inter == Dedupe(intersectionSeq(hMatches, vMatches), {})
      long == SelectSeq(matches, LAMBDA m : Len(m.blocks) >= 5 /\ midBlock(m) \notin SeqToSet(inter))
      at == inter \o [i \in 1 .. Len(long) |-> midBlock(long[i])]
  IN [i \in 1 .. Len(at) |->
        [row |-> at[i].row, col |-> at[i].col, color |-> b[at[i].row][at[i].col].color]]

RECURSIVE rocketCreationsOf(_, _, _)
rocketCreationsOf(matches, rainbowPositions, creating) ==
  IF matches = << >> THEN << >>
  ELSE LET m == Head(matches) IN
       IF Len(m.blocks) = 4 /\ midBlock(m) \notin rainbowPositions /\ midBlock(m) \notin creating
       THEN << [row |-> midBlock(m).row, col |-> midBlock(m).col,
                type |-> IF m.direction = "horizontal" THEN "rocket-h" ELSE "rocket-v"] >>
            \o rocketCreationsOf(Tail(matches), rainbowPositions, creating \cup {midBlock(m)})
       ELSE rocketCreationsOf(Tail(matches), rainbowPositions, creating)

PosOf(x) == Pos(x.row, x.col)
PosSet(s) == {PosOf(s[i]) : i \in 1 .. Len(s)}

\* the result record, from the matches and the activations of the two passes
matchResultOf(b, matches, rocketActivations, rainbowActivations, bombActivations, direct, creations) ==
  LET willBeCleared == willBeClearedOf(b, matches, rocketActivations, rainbowActivations,
                                       bombActivations)
      props == SelectSeq(Flatten(matches), LAMBDA p : b[p.row][p.col].specialType = "propeller")
  IN [matches |-> matches,
      rocketCreations |-> rocketCreationsOf(matches, PosSet(creations), {}),
      rocketActivations |-> rocketActivations,
      rainbowCreations |-> creations,
      rainbowActivations |-> rainbowActivations,
      bombCreations |-> << >>,
      bombActivations |-> bombActivations,
      propellerActivations |-> propellerActivationsOf(b, props, willBeCleared),
      obstacleDamage |-> direct \o iceDamage(b, matches, PosSet(direct))]

\* what the two passes leave behind: the matches and, for the visited
\* cells, the activations and the direct obstacle damage
passResultOf(b, horizontalMatches, verticalMatches, visited) ==
  The({matchResultOf(b, horizontalMatches \o verticalMatches, rocketActivations,
                     rainbowActivations, bombActivations, direct, rainbowCreations) :
         rocketActivations \in {rocketActivationsOf(b, visited)},
         rainbowActivations \in {rainbowActivationsOf(b, visited)},
         bombActivations \in {bombActivationsOf(b, visited)},
         direct \in {matchedObstacleDamage(b, visited)},
         rainbowCreations \in {rainbowCreationsOf(b, horizontalMatches \o verticalMatches,
                                                  horizontalMatches, verticalMatches)}})

findMatches(b) ==
  The({The({passResultOf(b, KeepMatches(hRuns), KeepMatches(vRuns),
                         Flatten(hRuns) \o Flatten(vRuns)) :
              vRuns \in {VerticalRuns(b, hRuns)}}) :
         hRuns \in {HorizontalRuns(b)}})

(***************************************************************************)
(* removeMatches                                                           *)
(***************************************************************************)
\* block.obstacle.health -= 1; if (health <= 0) block.obstacle = null
hitObstacle(block) ==
  IF block.obstacle.health - 1 <= 0
  THEN [block EXCEPT !.obstacle = NoObstacle]
  ELSE [block EXCEPT !.obstacle.health = @ - 1]

\* "First, apply obstacle damage from the match result"
RECURSIVE applyObstacleDamage(_, _)
applyObstacleDamage(nb, damage) ==
  IF damage = << >> THEN nb
  ELSE The({applyObstacleDamage(
              IF hasObstacle(newBoard[d.row][d.col])
              THEN [newBoard EXCEPT ![d.row][d.col] = hitObstacle(newBoard[d.row][d.col])]
              ELSE newBoard,
              Tail(damage)) :
            newBoard \in {nb}, d \in {Head(damage)}})

\* a sweep that leaves every special token where it is
sweepSparingSpecials(st, cells) ==
  The({[board |-> [r \in Idx |-> [c \in Idx |->
                     IF /\ Pos(r, c) \in area
                        /\ ~isBlocker(now.board[r][c])
                        /\ hasObstacle(now.board[r][c])
                     THEN hitObstacle(now.board[r][c])
                     ELSE now.board[r][c]]],
        toRemove |-> now.toRemove \cup
                     {p \in area : /\ ~isBlocker(now.board[p.row][p.col])
                                   /\ now.board[p.row][p.col].specialType = "none"
                                   /\ \/ ~hasObstacle(now.board[p.row][p.col])
                                      \/ now.board[p.row][p.col].obstacle.health - 1 <= 0}] :
         now \in {st}, area \in {cells}})

\* one activation sweep over cells: a blocker is skipped, an obstacle is
\* hit (and the cell removed only if that destroys it), a bare cell removed
sweep(st, cells) ==
  The({[board |-> [r \in Idx |-> [c \in Idx |->
                     IF /\ Pos(r, c) \in area
                        /\ ~isBlocker(now.board[r][c])
                        /\ hasObstacle(now.board[r][c])
                     THEN hitObstacle(now.board[r][c])
                     ELSE now.board[r][c]]],
        toRemove |-> now.toRemove \cup
                     {p \in area : /\ ~isBlocker(now.board[p.row][p.col])
                                   /\ \/ ~hasObstacle(now.board[p.row][p.col])
                                      \/ now.board[p.row][p.col].obstacle.health - 1 <= 0}] :
         now \in {st}, area \in {cells}})

rocketArea(rocket) ==
  IF rocket.type = "rocket-h" THEN RowCells(rocket.row) ELSE ColCells(rocket.col)

rainbowArea(nb, rainbow) ==
  {p \in AllPos : nb[p.row][p.col].color = rainbow.targetColor}

RECURSIVE sweepRockets(_, _)
sweepRockets(st, rockets) ==
  IF rockets = << >> THEN st
  ELSE The({sweepRockets(swept, Tail(rockets)) : swept \in {sweep(st, rocketArea(Head(rockets)))}})

RECURSIVE sweepRainbows(_, _)
sweepRainbows(st, rainbows) ==
  IF rainbows = << >> THEN st
  ELSE The({The({sweepRainbows(swept, Tail(rainbows)) :
                   swept \in {sweep(now, rainbowArea(now.board, Head(rainbows)))}}) :
            now \in {st}})

RECURSIVE sweepBombs(_, _)
sweepBombs(st, bombs) ==
  IF bombs = << >> THEN st
  ELSE The({sweepBombs(swept, Tail(bombs)) :
              swept \in {sweep(st, Area(Head(bombs).row, Head(bombs).col, 1))}})

RECURSIVE sweepPropellers(_, _)
sweepPropellers(st, propellers) ==
  IF propellers = << >> THEN st
  ELSE The({sweepPropellers(swept, Tail(propellers)) :
              swept \in {sweep(st, Area(Head(propellers).targetRow,
                                        Head(propellers).targetCol, 1))}})

HasAt(s, p) == \E i \in 1 .. Len(s) : s[i].row = p.row /\ s[i].col = p.col
FindAt(s, p) == s[CHOOSE i \in 1 .. Len(s) : s[i].row = p.row /\ s[i].col = p.col
                                             /\ \A j \in 1 .. (i - 1) : ~(s[j].row = p.row /\ s[j].col = p.col)]

\* "Remove blocks but keep special block creation positions"
removeOrCreate(block, p, mr) ==
  IF isBlocker(block) THEN block
  ELSE IF HasAt(mr.bombCreations, p)
  THEN Blk(FindAt(mr.bombCreations, p).color, "bomb", NoObstacle)
  ELSE IF HasAt(mr.rainbowCreations, p)
  THEN Blk(FindAt(mr.rainbowCreations, p).color, "rainbow", NoObstacle)
  ELSE IF HasAt(mr.rocketCreations, p)
  THEN Blk(block.color, FindAt(mr.rocketCreations, p).type, NoObstacle)
  ELSE EmptyBlock

\* toRemove computed on the board as it was before the damage
removalStateBeforeDamage(b, mr) ==
  LET st0 == The({[board |-> nb,
                   toRemove |-> {p \in SeqToSet(Flatten(mr.matches)) :
                                   ~hasObstacle(b[p.row][p.col])}] :
                    nb \in {applyObstacleDamage(b, mr.obstacleDamage)}})
  IN sweepPropellers(
       sweepBombs(
         sweepRainbows(
           sweepRockets(st0, mr.rocketActivations),
           mr.rainbowActivations),
         mr.bombActivations),
       mr.propellerActivations)

\* the set toRemove and the damaged board it is computed on
removalState(b, mr) ==
  LET st0 == The({[board |-> nb,
                   toRemove |-> {p \in SeqToSet(Flatten(mr.matches)) :
                                   ~hasObstacle(nb[p.row][p.col])}] :
                    nb \in {applyObstacleDamage(b, mr.obstacleDamage)}})
  IN sweepPropellers(
       sweepBombs(
         sweepRainbows(
           sweepRockets(st0, mr.rocketActivations),
           mr.rainbowActivations),
         mr.bombActivations),
       mr.propellerActivations)

removeMatches(b, mr) ==
  The({The({[board |-> [r \in Idx |-> [c \in Idx |->
                          IF Pos(r, c) \in st.toRemove
                          THEN removeOrCreate(st.board[r][c], Pos(r, c), matchResult)
                          ELSE st.board[r][c]]],
             clearedCount |-> Cardinality(st.toRemove)] :
              st \in {removalState(b, matchResult)}}) :
         matchResult \in {mr}})

(***************************************************************************)
(* applyGravity, fillEmptySpaces                                           *)
(***************************************************************************)
\* the loop over one column, from the bottom row up
RECURSIVE gravityColumn(_, _, _)
gravityColumn(column, row, emptyRow) ==
  IF row < 0 THEN column
  ELSE The({IF isBlocker(blocks[row]) THEN gravityColumn(blocks, row - 1, row - 1)
            ELSE IF blocks[row].color # EMPTY
            THEN IF row # emptyRow
                 THEN gravityColumn([blocks EXCEPT ![emptyRow] = blocks[row], ![row] = EmptyBlock],
                                    row - 1, emptyRow - 1)
                 ELSE gravityColumn(blocks, row - 1, emptyRow - 1)
            ELSE gravityColumn(blocks, row - 1, emptyRow) :
            blocks \in {column}})

\* gravity under which a blocker falls like any other cell
applyGravityMovingBlockers(b) ==
  LET kept(c) == SelectSeq([i \in 1 .. GRID_SIZE |-> b[i - 1][c]],
                           LAMBDA x : isBlocker(x) \/ x.color # EMPTY)
  IN [r \in Idx |-> [c \in Idx |->
        IF r < GRID_SIZE - Len(kept(c)) THEN EmptyBlock
        ELSE kept(c)[r - (GRID_SIZE - Len(kept(c))) + 1]]]

applyGravity(b) ==
  The({[r \in Idx |-> [c \in Idx |-> fallen[c][r]]] :
         fallen \in {[c \in Idx |->
                        gravityColumn([r \in Idx |-> b[r][c]], GRID_SIZE - 1, GRID_SIZE - 1)]}})

\* getRandomColor returns COLORS[floor(Math.random() * COLORS.length)]: any
\* member of COLORS.  A run of the program sees one sequence of draws; the
\* model takes the sequence from the family randomColor(seed, _), where
\* randomColor(seed, k) is the colour returned by the k-th call.
randomColor(seed, k) ==
  ((((((k + seed) * (k + seed)) \div 7) + seed * k) % 17) % NUM_COLORS) + 1

\* the draws of one refill: sequence seed of the family, or for seed = -c
\* the sequence on which every call returns the colour c
fillColor(seed, k) == IF seed < 0 THEN -seed ELSE randomColor(seed, k)

\* every cell without a colour, blockers included
toFillWithBlockers(b) == {p \in AllPos : b[p.row][p.col].color = EMPTY}

\* the cells fillEmptySpaces assigns a colour to
toFill(b) == {p \in AllPos : ~isBlocker(b[p.row][p.col]) /\ b[p.row][p.col].color = EMPTY}

\* rank of p among the cells to fill, in the row-major order of the loop:
\* the call of getRandomColor that colours p
drawIndex(b, p) == Cardinality({q \in toFill(b) : RowMajor(q) <= RowMajor(p)})

\* fillColor(seed, k) is the colour the k-th call of getRandomColor returns
fillEmptySpaces(b, seed) ==
  [r \in Idx |-> [c \in Idx |->
     IF Pos(r, c) \in toFill(b)
     THEN Blk(fillColor(seed, drawIndex(b, Pos(r, c))), "none", NoObstacle)
     ELSE b[r][c]]]

(***************************************************************************)
(* calculateScore                                                          *)
(***************************************************************************)
RECURSIVE matchPoints(_)
matchPoints(matches) ==
  IF matches = << >> THEN 0
  ELSE LET blockCount == Len(Head(matches).blocks)
       IN blockCount * 10 + (IF blockCount > 3 THEN (blockCount - 3) * 15 ELSE 0)
          + matchPoints(Tail(matches))

\* calculateScore with the bonuses of rockets and bombs exchanged
calculateScoreBonusesExchanged(matchResult) ==
  matchPoints(matchResult.matches)
  + Len(matchResult.rocketActivations) * 75
  + Len(matchResult.rainbowActivations) * 100
  + Len(matchResult.bombActivations) * 50
  + Len(matchResult.propellerActivations) * 60

calculateScore(matchResult) ==
  matchPoints(matchResult.matches)
  + Len(matchResult.rocketActivations) * 50
  + Len(matchResult.rainbowActivations) * 100
  + Len(matchResult.bombActivations) * 75
  + Len(matchResult.propellerActivations) * 60

(***************************************************************************)
(* Board construction: createInitialBoard, createBoardWithObstacles        *)
(***************************************************************************)
\* while (cond && c1 === color && c2 === color) color = getRandomColor():
\* index of the first draw from k on that the loop lets through
RECURSIVE redraw(_, _, _, _, _)
redraw(seed, k, active, c1, c2) ==
  IF active /\ c1 = randomColor(seed, k) /\ c2 = randomColor(seed, k)
  THEN redraw(seed, k + 1, active, c1, c2)
  ELSE k

\* draw index that colours cell (row, col) given the cells built so far:
\* the horizontal loop first, then the vertical loop
acceptedDraw(b, seed, k, row, col) ==
  LET kH == redraw(seed, k, col >= 2,
                   IF col >= 2 THEN b[row][col - 1].color ELSE EMPTY,
                   IF col >= 2 THEN b[row][col - 2].color ELSE EMPTY)
  IN redraw(seed, kH, row >= 2,
            IF row >= 2 THEN b[row - 1][col].color ELSE EMPTY,
            IF row >= 2 THEN b[row - 2][col].color ELSE EMPTY)

BlankBoard == [r \in Idx |-> [c \in Idx |-> EmptyBlock]]

\* one iteration of the inner for loop: st = [board, n, k] with n cells
\* pushed and k - 1 draws used
pushCell(st, seed) ==
  LET row == st.n \div GRID_SIZE
      col == st.n % GRID_SIZE
      k == acceptedDraw(st.board, seed, st.k, row, col)
  IN [board |-> [st.board EXCEPT ![row][col] = Blk(randomColor(seed, k), "none", NoObstacle)],
      n |-> st.n + 1,
      k |-> k + 1]

RECURSIVE pushCells(_, _)
pushCells(st, seed) ==
  IF st.n >= GRID_SIZE * GRID_SIZE THEN st ELSE pushCells(pushCell(st, seed), seed)

ROCKET_COUNT_EASY == 4
PROPELLER_COUNT_EASY == 2
ROCKET_COUNTS(difficulty) == IF difficulty = "easy" THEN ROCKET_COUNT_EASY ELSE 0
PROPELLER_COUNTS(difficulty) == IF difficulty = "easy" THEN PROPELLER_COUNT_EASY ELSE 0

\* "Add rockets for easy mode", "Add propellers for easy mode": where is the
\* sequence of distinct positions the random draws end up using, types the
\* rocket orientation drawn for each of the first rocketCount of them
seedSpecials(b, difficulty, where, types) ==
  [r \in Idx |-> [c \in Idx |->
     IF \E i \in 1 .. ROCKET_COUNTS(difficulty) : where[i] = Pos(r, c)
     THEN [b[r][c] EXCEPT !.specialType =
             types[CHOOSE i \in 1 .. ROCKET_COUNTS(difficulty) : where[i] = Pos(r, c)]]
     ELSE IF \E i \in (ROCKET_COUNTS(difficulty) + 1) ..
                      (ROCKET_COUNTS(difficulty) + PROPELLER_COUNTS(difficulty)) : where[i] = Pos(r, c)
     THEN [b[r][c] EXCEPT !.specialType = "propeller"]
     ELSE b[r][c]]]

createInitialBoard(difficulty, seed, where, types) ==
  seedSpecials(pushCells([board |-> BlankBoard, n |-> 0, k |-> 1], seed).board,
               difficulty, where, types)

\* one iteration of the loop of createBoardWithObstacles; config is
\* [type, row, col, health] with health 0 standing for "not given"
placeObstacle(b, config) ==
  IF inBounds(config.row, config.col)
  THEN LET defaultHealth == IF config.type = "box" THEN 2 ELSE 1
           health == IF config.health # 0 THEN config.health ELSE defaultHealth
           withObstacle == [b EXCEPT ![config.row][config.col].obstacle =
                                       [type |-> config.type, health |-> health]]
       IN IF config.type = "blocker"
          THEN [withObstacle EXCEPT ![config.row][config.col].color = EMPTY]
          ELSE withObstacle
  ELSE b

RECURSIVE placeObstacles(_, _)
placeObstacles(b, obstacles) ==
  IF obstacles = << >> THEN b
  ELSE placeObstacles(placeObstacle(b, Head(obstacles)), Tail(obstacles))

createBoardWithObstacles(difficulty, obstacles, seed, where, types) ==
  placeObstacles(createInitialBoard(difficulty, seed, where, types), obstacles)

(***************************************************************************)
(* Bounds of the model                                                     *)
(***************************************************************************)
MaxSeed == 0         \* random sources of a level's board: seeds 0..MaxSeed
MaxCreateSeed == 2   \* random sources of the construction steps: seeds 0..MaxCreateSeed
MaxFillSeed == 0     \* random sources of a refill: seeds 0..MaxFillSeed
MaxMoves == 1        \* levelConfig.moves
TimeLimit == 2       \* the timeLimit option, in seconds
MaxArcadeScore == 100  \* an arcade session takes swap requests while its score is below this
MaxResets == 1       \* calls of resetGame in one behaviour
MaxCombo == 3        \* cascade rounds of one move
MaxSwapCoord == 1    \* swap requests start in row 0, columns 0..MaxSwapCoord
MaxSwaps == 2        \* swap requests made in one behaviour
MaxSwapsAfterReset == 1  \* swap requests made after a call of resetGame
MaxRun == 5          \* longest run stamped on a board handed to the settling loop
ObjectiveScore == 30 \* score target of a level's reachScore objective
ObjectiveCount == 3  \* count of a level's clearColor objective
ObjectiveScoreHigh == 500  \* score target that one fusion does not reach
MaxPasses == 1       \* boards a phase function returned that are handed to a next call

Seeds == 0 .. MaxSeed
FillSeeds == 0 .. MaxFillSeed
Difficulties == {"easy", "medium"}

\* positions the special seeding ends up using: column 0 holds three
\* rockets in rows 0..2, column 1 a rocket and the two propellers
SpecialPlacement ==
  [j \in 1 .. (ROCKET_COUNT_EASY + PROPELLER_COUNT_EASY) |-> Pos((j - 1) % 3, (j - 1) \div 3)]
\* rocket orientations drawn by Math.random() > 0.5, alternating from flip
RocketTypes(flip) ==
  [j \in 1 .. ROCKET_COUNT_EASY |-> IF (j + flip) % 2 = 0 THEN "rocket-h" ELSE "rocket-v"]

\* obstacle lists of a level: one obstacle in one of the cells; health 0
\* stands for a config without health
ObstacleKinds == {"box", "ice", "blocker"}
ObstacleLists(cells) ==
  {<< [type |-> t, row |-> p.row, col |-> p.col, health |-> 0] >> : t \in ObstacleKinds, p \in cells}

\* the swap requests delivered to handleSwipe / handleBlockPress: a cell of
\* the window and a cell at one of these offsets from it (adjacent ones, two
\* that are not adjacent; at the window's edge the target is off the board)
SwapOffsets == {<<0, 1>>, <<1, 0>>, <<-1, 0>>, <<0, 2>>, <<1, 1>>}
SwapWindow == {Pos(0, c) : c \in 0 .. MaxSwapCoord}
PressCells == SwapWindow

(***************************************************************************)
(* State of the useGameLogic hook                                          *)
(***************************************************************************)
VARIABLES
  board,           \* useState<Board>
  gameState,       \* 'idle' | 'animating' | 'checking' | 'removing' | 'falling' | 'filling'
  score,
  combo,
  selectedBlock,   \* [some, row, col]; some = FALSE is null
  pendingSwap,     \* [some, from, to, isReverse]; some = FALSE is null
  movesRemaining,  \* classic mode; NoNumber in arcade mode
  gameMode,        \* option of the hook: 'classic' | 'arcade'
  timeRemaining,   \* arcade mode; NoNumber in classic mode
  isGameOver,
  isLevelComplete,
  timers,          \* pending setTimeout callbacks with the values they captured
  difficulty,      \* option of the hook
  build,           \* progress of board construction
  resets,          \* calls of resetGame so far
  swapBase,        \* board held when the pending swap was requested
  objectiveProgress, \* useState<ObjectiveProgress[]>
  heap             \* objects of the boards a phase function is called on

vars == <<board, gameState, score, combo, selectedBlock, pendingSwap, movesRemaining,
          isGameOver, isLevelComplete, timers, difficulty, build, resets, swapBase,
          objectiveProgress, heap, gameMode, timeRemaining>>

\* the game mode and its countdown
clock == <<gameMode, timeRemaining>>

NoPos == Pos(-1, -1)
NoSelection == [some |-> FALSE, row |-> -1, col |-> -1]
NoSwap == [some |-> FALSE, from |-> NoPos, to |-> NoPos, isReverse |-> FALSE]
Built == [phase |-> "done", n |-> GRID_SIZE * GRID_SIZE, k |-> 0, seed |-> 0]

\* the hook holds its boards as values of useState and never compares or
\* writes their objects: no object is tracked outside the phase functions
NoHeap == << >>

effectiveMaxMoves == MaxMoves
timeLimit == TimeLimit

\* null in a number state of the hook: a value no counter reaches
NoNumber == 0 - GRID_SIZE * GRID_SIZE

isArcadeMode == gameMode = "arcade"

isSpecial(t) == t \in {"rocket-h", "rocket-v", "rainbow", "bomb", "propeller"}

\* the useState initialisers of useGameLogic, the board and the objectives
\* apart
hookState ==
  /\ gameState = "idle"
  /\ score = 0
  /\ combo = 0
  /\ selectedBlock = NoSelection
  /\ pendingSwap = NoSwap
  /\ timeRemaining = IF isArcadeMode THEN timeLimit ELSE NoNumber
  /\ movesRemaining = IF isArcadeMode THEN NoNumber ELSE effectiveMaxMoves
  /\ isGameOver = FALSE
  /\ isLevelComplete = FALSE
  /\ timers = {}
  /\ resets = 0
  /\ swapBase = board
  /\ heap = NoHeap

\* the hook without a levelConfig: initializeObjectiveProgress returns []
hookStart == gameMode = "classic" /\ hookState /\ objectiveProgress = << >>

\* state right after the first render of useGameLogic:
\* useState(() => createInitialBoard(difficulty))
Init ==
  /\ difficulty \in Difficulties
  /\ \E seed \in Seeds, flip \in 0 .. 1 :
       board = createInitialBoard(difficulty, seed, SpecialPlacement, RocketTypes(flip))
  /\ build = Built
  /\ hookStart

\* the hook holding the board of a level that declares an obstacle, as
\* createBoardWithObstacles builds it
InitLevel ==
  /\ difficulty \in Difficulties
  /\ \E seed \in Seeds, flip \in 0 .. 1, obstacles \in ObstacleLists({Pos(0, 2)}) :
       board = createBoardWithObstacles(difficulty, obstacles, seed,
                                        SpecialPlacement, RocketTypes(flip))
  /\ build = Built
  /\ hookStart

(***************************************************************************)
(* Combo fusion engine: detectComboType, findBestPropellerTargets,         *)
(* executeCombo                                                            *)
(***************************************************************************)
normalize(t) == IF IsRocket(t) THEN "rocket" ELSE t

\* detectComboType with the entry 'propeller+rocket' left out of comboMap
detectComboTypeNoPropellerRocket(type1, type2) ==
  LET pair == {normalize(type1), normalize(type2)}
  IN IF pair = {"rocket"} THEN "rocket-rocket"
     ELSE IF pair = {"bomb", "rocket"} THEN "rocket-bomb"
     ELSE IF pair = {"rainbow", "rocket"} THEN "rocket-rainbow"
     ELSE IF pair = {"bomb"} THEN "bomb-bomb"
     ELSE IF pair = {"bomb", "rainbow"} THEN "bomb-rainbow"
     ELSE IF pair = {"rainbow"} THEN "rainbow-rainbow"
     ELSE IF pair = {"bomb", "propeller"} THEN "propeller-bomb"
     ELSE IF pair = {"propeller", "rainbow"} THEN "propeller-rainbow"
     ELSE IF pair = {"propeller"} THEN "propeller-propeller"
     ELSE "none"

detectComboType(type1, type2) ==
  LET pair == {normalize(type1), normalize(type2)}
  IN IF pair = {"rocket"} THEN "rocket-rocket"
     ELSE IF pair = {"bomb", "rocket"} THEN "rocket-bomb"
     ELSE IF pair = {"rainbow", "rocket"} THEN "rocket-rainbow"
     ELSE IF pair = {"bomb"} THEN "bomb-bomb"
     ELSE IF pair = {"bomb", "rainbow"} THEN "bomb-rainbow"
     ELSE IF pair = {"rainbow"} THEN "rainbow-rainbow"
     ELSE IF pair = {"propeller", "rocket"} THEN "propeller-rocket"
     ELSE IF pair = {"bomb", "propeller"} THEN "propeller-bomb"
     ELSE IF pair = {"propeller", "rainbow"} THEN "propeller-rainbow"
     ELSE IF pair = {"propeller"} THEN "propeller-propeller"
     ELSE "none"

comboTargetScore(b, p) ==
  LET t == b[p.row][p.col].specialType
  IN (IF t = "rainbow" THEN 100
      ELSE IF t = "bomb" THEN 80
      ELSE IF IsRocket(t) THEN 60
      ELSE IF t = "propeller" THEN 40
      ELSE 0) + p.row * 2

\* candidates.sort((a, b) => b.score - a.score).slice(0, count)
RECURSIVE bestOf(_, _, _)
bestOf(b, candidates, count) ==
  IF count = 0 \/ candidates = {} THEN << >>
  ELSE LET best == FirstBest([p \in candidates |-> comboTargetScore(b, p)])
       IN << best >> \o bestOf(b, candidates \ {best}, count - 1)

findBestPropellerTargets(b, count, alreadyCleared) ==
  bestOf(b, {p \in AllPos \ alreadyCleared : b[p.row][p.col].color # EMPTY}, count)

\* Math.random() > 0.5 ? 'rocket-h' : 'rocket-v' for the cell p, under the
\* orientation pattern orient
randomRocketType(orient, p) ==
  IF (RowMajor(p) + orient) % 2 = 0 THEN "rocket-h" ELSE "rocket-v"

\* the set toRemove that executeCombo builds
comboToRemove(comboType, row, col, color, newBoard, orient) ==
  LET colored == {p \in AllPos : newBoard[p.row][p.col].color = color}
      start == {Pos(row, col)}
      targets(count) == SeqToSet(findBestPropellerTargets(newBoard, count, start))
  IN start \cup
     (CASE comboType = "rocket-rocket" -> RowCells(row) \cup ColCells(col)
        [] comboType = "rocket-bomb" ->
             UNION {RowCells(r) : r \in {row - 1, row, row + 1} \cap Idx}
        [] comboType = "bomb-bomb" -> Area(row, col, 2)
        [] comboType = "rainbow-rainbow" -> AllPos
        [] comboType = "rocket-rainbow" ->
             UNION {{p} \cup (IF randomRocketType(orient, p) = "rocket-h"
                              THEN RowCells(p.row) ELSE ColCells(p.col)) : p \in colored}
        [] comboType = "bomb-rainbow" -> UNION {Area(p.row, p.col, 1) : p \in colored}
        [] comboType \in {"propeller-rocket", "propeller-propeller", "propeller-rainbow"} ->
             UNION {Area(t.row, t.col, 1) : t \in targets(3)}
        [] comboType = "propeller-bomb" -> UNION {Area(t.row, t.col, 2) : t \in targets(1)}
        [] OTHER -> {})

\* the fusion score with the per-cell award of a plain match
comboScoreTenPerCell(toRemove) == 200 + Cardinality(toRemove) * 10

\* const comboScore = 200 + toRemove.size * 15
comboScore(toRemove) == 200 + Cardinality(toRemove) * 15

\* the first timeout of executeCombo: the cells of toRemove lose colour and
\* special type; the obstacle field is spread over unchanged
comboRemoval(newBoard, toRemove) ==
  [r \in Idx |-> [c \in Idx |->
     IF Pos(r, c) \in toRemove
     THEN [newBoard[r][c] EXCEPT !.color = EMPTY, !.specialType = "none"]
     ELSE newBoard[r][c]]]

(***************************************************************************)
(* Objective progress                                                      *)
(***************************************************************************)
\* an ObjectiveType value is [type, color, count, score]; the fields a type
\* does not have are left empty or 0
getObjectiveTarget(objective) ==
  IF objective.type = "clearColor" THEN objective.count
  ELSE IF objective.type = "reachScore" THEN objective.score
  ELSE IF objective.type \in {"clearObstacle", "collectItem", "useSpecial"} THEN objective.count
  ELSE 0

initializeObjectiveProgress(objectives) ==
  [i \in 1 .. Len(objectives) |->
     [objective |-> objectives[i], current |-> 0,
      target |-> getObjectiveTarget(objectives[i]), completed |-> FALSE]]

\* the update without Math.min(newCurrent, progress.target)
updatedProgressUncapped(prev, clearedBlocks, currentBoard, scoreNow, earnedScore) ==
  [i \in 1 .. Len(prev) |->
     IF prev[i].completed THEN prev[i]
     ELSE LET objective == prev[i].objective
              newCurrent ==
                IF objective.type = "clearColor"
                THEN prev[i].current
                     + Cardinality({p \in clearedBlocks :
                                      currentBoard[p.row][p.col].color = objective.color})
                ELSE IF objective.type = "reachScore" THEN scoreNow + earnedScore
                ELSE prev[i].current
          IN [prev[i] EXCEPT !.current = newCurrent,
                             !.completed = newCurrent >= prev[i].target]]

\* the array the updater of setObjectiveProgress returns; scoreNow is the
\* score the callback closed over
updatedProgress(prev, clearedBlocks, currentBoard, scoreNow, earnedScore) ==
  [i \in 1 .. Len(prev) |->
     IF prev[i].completed THEN prev[i]
     ELSE LET objective == prev[i].objective
              newCurrent ==
                IF objective.type = "clearColor"
                THEN prev[i].current
                     + Cardinality({p \in clearedBlocks :
                                      currentBoard[p.row][p.col].color = objective.color})
                ELSE IF objective.type = "reachScore" THEN scoreNow + earnedScore
                ELSE prev[i].current
          IN [prev[i] EXCEPT !.current = IF newCurrent < prev[i].target THEN newCurrent
                                         ELSE prev[i].target,
                             !.completed = newCurrent >= prev[i].target]]

\* setTimeout(() => setIsLevelComplete(true), 500)
LevelCompleteTimer == [kind |-> "levelComplete", board |-> BlankBoard, toRemove |-> {}]

\* updateObjectiveProgress: the new progress and the timers it leaves pending
updateObjectiveProgress(clearedBlocks, currentBoard, earnedScore, pending) ==
  IF objectiveProgress = << >>
  THEN objectiveProgress' = objectiveProgress /\ timers' = pending
  ELSE LET updated == updatedProgress(objectiveProgress, clearedBlocks, currentBoard,
                                      score, earnedScore)
       IN /\ objectiveProgress' = updated
          /\ timers' = IF (\A i \in 1 .. Len(updated) : updated[i].completed) /\ ~isLevelComplete
                       THEN pending \cup {LevelCompleteTimer}
                       ELSE pending

\* the positions processMatches collects in exploding
explodingOf(b, matchResult) ==
  SeqToSet(Flatten(matchResult.matches))
  \cup willBeClearedOf(b, << >>, matchResult.rocketActivations, matchResult.rainbowActivations,
                       matchResult.bombActivations)
  \cup UNION {Area(matchResult.propellerActivations[i].targetRow,
                   matchResult.propellerActivations[i].targetCol, 1) :
              i \in 1 .. Len(matchResult.propellerActivations)}

(***************************************************************************)
(* Cascade driver: the handlers of useGameLogic                            *)
(***************************************************************************)
config == <<difficulty, build, heap>>

\* body of initiateSwap past its guard
acceptSwap(row1, col1, row2, col2) ==
  /\ movesRemaining' = IF ~isArcadeMode /\ movesRemaining # NoNumber
                       THEN movesRemaining - 1
                       ELSE movesRemaining
  /\ gameState' = "animating"
  /\ pendingSwap' = [some |-> TRUE, from |-> Pos(row1, col1), to |-> Pos(row2, col2),
                     isReverse |-> FALSE]
  /\ swapBase' = board
  /\ UNCHANGED <<board, score, combo, isGameOver, isLevelComplete, timers, resets, config, clock,
    objectiveProgress>>

\* initiateSwap testing the game state only, not isGameOver
handleSwipeAfterGameOver(fromRow, fromCol, toRow, toCol) ==
  IF gameState # "idle"
  THEN UNCHANGED vars
  ELSE acceptSwap(fromRow, fromCol, toRow, toCol) /\ UNCHANGED selectedBlock

\* handleSwipe(fromRow, fromCol, toRow, toCol): initiateSwap and nothing else
handleSwipe(fromRow, fromCol, toRow, toCol) ==
  IF gameState # "idle" \/ isGameOver
  THEN UNCHANGED vars
  ELSE acceptSwap(fromRow, fromCol, toRow, toCol) /\ UNCHANGED selectedBlock

handleBlockPress(row, col) ==
  IF gameState # "idle" \/ isGameOver
  THEN UNCHANGED vars
  ELSE IF ~selectedBlock.some
  THEN /\ selectedBlock' = [some |-> TRUE, row |-> row, col |-> col]
       /\ UNCHANGED <<board, gameState, score, combo, pendingSwap, movesRemaining, isGameOver,
                      isLevelComplete, timers, resets, swapBase, config, clock,
                      objectiveProgress>>
  ELSE IF selectedBlock.row = row /\ selectedBlock.col = col
  THEN /\ selectedBlock' = NoSelection
       /\ UNCHANGED <<board, gameState, score, combo, pendingSwap, movesRemaining, isGameOver,
                      isLevelComplete, timers, resets, swapBase, config, clock,
                      objectiveProgress>>
  ELSE IF areAdjacent(selectedBlock.row, selectedBlock.col, row, col)
  THEN /\ acceptSwap(selectedBlock.row, selectedBlock.col, row, col)
       /\ selectedBlock' = NoSelection
  ELSE /\ selectedBlock' = [some |-> TRUE, row |-> row, col |-> col]
       /\ UNCHANGED <<board, gameState, score, combo, pendingSwap, movesRemaining, isGameOver,
                      isLevelComplete, timers, resets, swapBase, config, clock,
                      objectiveProgress>>

\* executeCombo up to its first setTimeout
executeCombo(comboType, row, col, color, newBoard, orient) ==
  LET toRemove == comboToRemove(comboType, row, col, color, newBoard, orient)
  IN /\ score' = score + comboScore(toRemove)
     /\ combo' = combo + 1
     /\ gameState' = "removing"
     /\ updateObjectiveProgress(toRemove, newBoard, comboScore(toRemove),
                                timers \cup {[kind |-> "comboRemove", board |-> newBoard,
                                              toRemove |-> toRemove]})

\* onSwapAnimationComplete.  Reading board[to.row][to.col] with to.row off
\* the board throws before any state is set: the handler is then not enabled.
onSwapAnimationComplete ==
  /\ pendingSwap.some /\ ~pendingSwap.isReverse
  /\ inBounds(pendingSwap.from.row, pendingSwap.from.col)
  /\ inBounds(pendingSwap.to.row, pendingSwap.to.col)
  /\ LET from == pendingSwap.from
         to == pendingSwap.to
         block1 == board[from.row][from.col]
         block2 == board[to.row][to.col]
         newBoard == swapBlocks(board, from.row, from.col, to.row, to.col)
         comboType == detectComboType(block1.specialType, block2.specialType)
     IN IF isSpecial(block1.specialType) /\ isSpecial(block2.specialType) /\ comboType # "none"
        THEN /\ board' = newBoard
             /\ selectedBlock' = NoSelection
             /\ pendingSwap' = NoSwap
             /\ \E orient \in (IF comboType = "rocket-rainbow" THEN 0 .. 1 ELSE {0}) :
                  executeCombo(comboType, to.row, to.col,
                               IF block1.color # EMPTY THEN block1.color ELSE block2.color,
                               newBoard, orient)
             /\ UNCHANGED <<movesRemaining, isGameOver, isLevelComplete, resets, swapBase, config, clock>>
        ELSE IF findMatches(newBoard).matches # << >>
        THEN /\ board' = newBoard
             /\ selectedBlock' = NoSelection
             /\ pendingSwap' = NoSwap
             /\ gameState' = "checking"
             /\ UNCHANGED <<score, combo, movesRemaining, isGameOver, isLevelComplete, timers,
                            resets, swapBase, config, clock,
                              objectiveProgress>>
        ELSE /\ board' = newBoard
             /\ pendingSwap' = [some |-> TRUE, from |-> to, to |-> from, isReverse |-> TRUE]
             /\ UNCHANGED <<gameState, score, combo, selectedBlock, movesRemaining, isGameOver,
                            isLevelComplete, timers, resets, swapBase, config, clock,
                            objectiveProgress>>

\* the reverse animation ending without the swap back
onReverseAnimationCompleteNoSwapBack ==
  /\ pendingSwap.some /\ pendingSwap.isReverse
  /\ pendingSwap' = NoSwap
  /\ gameState' = "idle"
  /\ UNCHANGED <<board, score, combo, selectedBlock, movesRemaining, isGameOver, isLevelComplete,
                 timers, resets, swapBase, config, clock,
                   objectiveProgress>>

onReverseAnimationComplete ==
  /\ pendingSwap.some /\ pendingSwap.isReverse
  /\ board' = swapBlocks(board, pendingSwap.from.row, pendingSwap.from.col,
                         pendingSwap.to.row, pendingSwap.to.col)
  /\ pendingSwap' = NoSwap
  /\ gameState' = "idle"
  /\ UNCHANGED <<score, combo, selectedBlock, movesRemaining, isGameOver, isLevelComplete,
                 timers, resets, swapBase, config, clock,
                   objectiveProgress>>

\* processMatches, run by the effect on gameState === 'checking'
processMatches ==
  /\ gameState = "checking"
  /\ LET matchResult == findMatches(board)
     IN IF matchResult.matches # << >>
        THEN /\ combo < MaxCombo
             /\ gameState' = "removing"
             /\ score' = score + ((calculateScore(matchResult) * (2 + combo)) \div 2)
             /\ combo' = combo + 1
             /\ updateObjectiveProgress(explodingOf(board, matchResult), board,
                                        (calculateScore(matchResult) * (2 + combo)) \div 2,
                                        timers \cup {[kind |-> "remove", board |-> board,
                                                      toRemove |-> {}]})
             /\ UNCHANGED <<board, selectedBlock, pendingSwap, movesRemaining, isGameOver,
                            isLevelComplete, resets, swapBase, config, clock>>
        ELSE /\ combo' = 0
             /\ gameState' = "idle"
             /\ isGameOver' = IF /\ ~isArcadeMode /\ movesRemaining # NoNumber
                                /\ movesRemaining <= 0 /\ ~isLevelComplete
                             THEN TRUE
                             ELSE isGameOver
             /\ UNCHANGED <<board, score, selectedBlock, pendingSwap, movesRemaining,
                            isLevelComplete, timers, resets, swapBase, config, clock,
                            objectiveProgress>>

\* the nested setTimeout callbacks of processMatches and executeCombo; each
\* works on the board value its closure captured
timerFrame == <<score, combo, selectedBlock, pendingSwap, movesRemaining, isGameOver,
                isLevelComplete, resets, swapBase, config, clock,
                objectiveProgress>>

removeTimeout(t) ==
  /\ t.kind = "remove"
  /\ board' = removeMatches(t.board, findMatches(t.board)).board
  /\ gameState' = "falling"
  /\ timers' = (timers \ {t}) \cup {[kind |-> "gravity", board |-> board', toRemove |-> {}]}
  /\ UNCHANGED timerFrame

comboRemoveTimeout(t) ==
  /\ t.kind = "comboRemove"
  /\ board' = comboRemoval(t.board, t.toRemove)
  /\ gameState' = "falling"
  /\ timers' = (timers \ {t}) \cup {[kind |-> "gravity", board |-> board', toRemove |-> {}]}
  /\ UNCHANGED timerFrame

gravityTimeout(t) ==
  /\ t.kind = "gravity"
  /\ board' = applyGravity(t.board)
  /\ gameState' = "filling"
  /\ timers' = (timers \ {t}) \cup {[kind |-> "fill", board |-> board', toRemove |-> {}]}
  /\ UNCHANGED timerFrame

fillTimeout(t, seed) ==
  /\ t.kind = "fill"
  /\ board' = fillEmptySpaces(t.board, seed)
  /\ gameState' = "checking"
  /\ timers' = timers \ {t}
  /\ UNCHANGED timerFrame

resetGame ==
  /\ resets < MaxResets
  /\ \E seed \in Seeds, flip \in 0 .. 1 :
       board' = createInitialBoard(difficulty, seed, SpecialPlacement, RocketTypes(flip))
  /\ score' = 0
  /\ selectedBlock' = NoSelection
  /\ gameState' = "idle"
  /\ combo' = 0
  /\ pendingSwap' = NoSwap
  /\ isGameOver' = FALSE
  /\ isLevelComplete' = FALSE
  /\ timeRemaining' = IF isArcadeMode THEN timeLimit ELSE NoNumber
  /\ movesRemaining' = IF isArcadeMode THEN NoNumber ELSE effectiveMaxMoves
  /\ objectiveProgress' =
       initializeObjectiveProgress([i \in 1 .. Len(objectiveProgress) |->
                                      objectiveProgress[i].objective])
  /\ resets' = resets + 1
  /\ UNCHANGED <<timers, swapBase, config, gameMode>>

\* the calls the environment makes
\* swap requests the environment may still make
swapsLeft == movesRemaining - effectiveMaxMoves + (IF resets = 0 THEN MaxSwaps ELSE MaxSwapsAfterReset)

HandleSwipe ==
  /\ swapsLeft > 0
  /\ \E p \in SwapWindow, o \in SwapOffsets :
       handleSwipe(p.row, p.col, p.row + o[1], p.col + o[2])

HandleBlockPress ==
  /\ swapsLeft > 0
  /\ \E p \in PressCells : handleBlockPress(p.row, p.col)

HandleSwapAnimationComplete ==
  \/ onSwapAnimationComplete
  \/ onReverseAnimationComplete

Timeout ==
  \E t \in timers :
    \/ removeTimeout(t)
    \/ comboRemoveTimeout(t)
    \/ gravityTimeout(t)
    \/ \E seed \in FillSeeds : fillTimeout(t, seed)

Next ==
  \/ HandleSwipe
  \/ HandleBlockPress
  \/ HandleSwapAnimationComplete
  \/ processMatches
  \/ Timeout

\* one session of a level, from its first render on
Spec == Init /\ [][Next]_vars

\* sessions in which the player also restarts the level
NextReset == Next \/ resetGame
SpecReset == Init /\ [][NextReset]_vars

\* sessions on the board of a level with an obstacle
SpecLevel == InitLevel /\ [][Next]_vars

\* the callback of the timer updateObjectiveProgress sets
LevelCompleteTimeout ==
  /\ LevelCompleteTimer \in timers
  /\ isLevelComplete' = TRUE
  /\ timers' = timers \ {LevelCompleteTimer}
  /\ UNCHANGED <<board, gameState, score, combo, selectedBlock, pendingSwap, movesRemaining,
                 isGameOver, resets, swapBase, config, clock, objectiveProgress>>

\* the objectives of the levels played: a score to reach (one that the first
\* award reaches, or one that takes several awards), or cells of the first
\* colour to clear and a score to reach
ObjectiveLists ==
  LET reachScore == [type |-> "reachScore", color |-> EMPTY, count |-> 0, score |-> ObjectiveScore]
      reachHigh == [type |-> "reachScore", color |-> EMPTY, count |-> 0, score |-> ObjectiveScoreHigh]
      clearColor == [type |-> "clearColor", color |-> 1, count |-> ObjectiveCount, score |-> 0]
  IN {<< reachScore >>, << reachHigh >>, << clearColor, reachScore >>}

\* the hook given a levelConfig with objectives
InitObjectives ==
  /\ difficulty \in Difficulties
  /\ \E seed \in Seeds, flip \in 0 .. 1 :
       board = createInitialBoard(difficulty, seed, SpecialPlacement, RocketTypes(flip))
  /\ build = Built
  /\ gameMode = "classic"
  /\ hookState
  /\ objectiveProgress \in {initializeObjectiveProgress(o) : o \in ObjectiveLists}

\* sessions of a level with objectives, up to a restart and the callbacks
\* that follow it
NextObjectives ==
  \/ resets = 0 /\ HandleSwipe
  \/ HandleSwapAnimationComplete
  \/ processMatches
  \/ Timeout
  \/ LevelCompleteTimeout
  \/ resetGame

SpecObjectives == InitObjectives /\ [][NextObjectives]_vars

(***************************************************************************)
(* Board construction, one loop iteration at a time                        *)
(***************************************************************************)
CreateSeeds == 0 .. MaxCreateSeed
hookFrame == <<gameState, score, combo, selectedBlock, pendingSwap, movesRemaining, isGameOver,
               isLevelComplete, timers, resets, swapBase, objectiveProgress, heap, clock>>

InitCreate ==
  /\ difficulty \in Difficulties
  /\ board = BlankBoard
  /\ build \in {[phase |-> "cells", n |-> 0, k |-> 1, seed |-> seed] : seed \in CreateSeeds}
  /\ hookStart

\* one iteration of the inner for loop of createInitialBoard
CreateCell ==
  /\ build.phase = "cells"
  /\ build.n < GRID_SIZE * GRID_SIZE
  /\ LET st == pushCell([board |-> board, n |-> build.n, k |-> build.k], build.seed)
     IN /\ board' = st.board
        /\ build' = [build EXCEPT !.n = st.n, !.k = st.k]
  /\ UNCHANGED <<difficulty, hookFrame>>

\* the two seeding loops of createInitialBoard, up to its return
CreateSpecials ==
  /\ build.phase = "cells"
  /\ build.n = GRID_SIZE * GRID_SIZE
  /\ \E flip \in 0 .. 1 :
       board' = seedSpecials(board, difficulty, SpecialPlacement, RocketTypes(flip))
  /\ build' = [build EXCEPT !.phase = "initial"]
  /\ UNCHANGED <<difficulty, hookFrame>>

\* the loop of createBoardWithObstacles over the level's obstacle list
CreateObstacles ==
  /\ build.phase = "initial"
  /\ \E obstacles \in ObstacleLists({Pos(1, 1), Pos(1, 2)}) :
       board' = placeObstacles(board, obstacles)
  /\ build' = [build EXCEPT !.phase = "done"]
  /\ UNCHANGED <<difficulty, hookFrame>>

NextCreate ==
  \/ CreateCell
  \/ CreateSpecials
  \/ CreateObstacles

SpecCreate == InitCreate /\ [][NextCreate]_vars

(***************************************************************************)
(* The settling loop on its own: findMatches -> removeMatches ->           *)
(* applyGravity -> fillEmptySpaces until findMatches returns no matches    *)
(***************************************************************************)
\* a run of len cells of one colour laid over b from (r, c) on
stamp(b, horizontal, r, c, len, color) ==
  [i \in Idx |-> [j \in Idx |->
     IF isBlocker(b[i][j]) THEN b[i][j]
     ELSE IF horizontal /\ i = r /\ j >= c /\ j < c + len THEN [b[i][j] EXCEPT !.color = color]
     ELSE IF ~horizontal /\ j = c /\ i >= r /\ i < r + len THEN [b[i][j] EXCEPT !.color = color]
     ELSE b[i][j]]]

RunLengths == 3 .. MaxRun

\* boards handed to the loop: a constructed board carrying a horizontal run
\* in row 1 from column 2 on and, or not, a vertical run in column 7 from
\* row 2 on; an obstacle, if any, sits on the first cell of the row
ProbeBoards(d) ==
  {stamp(stamp(createBoardWithObstacles(d, obstacles, seed, SpecialPlacement, RocketTypes(0)),
               TRUE, 1, 2, lenH, 1),
         FALSE, 2, 7, lenV, 2) :
     obstacles \in {<< >>} \cup ObstacleLists({Pos(1, 2)}),
     seed \in Seeds, lenH \in RunLengths, lenV \in {0} \cup RunLengths}

\* the sequences of refill draws: those of the family and the one that
\* returns the first colour on every call
SettleSeeds == FillSeeds \cup {-1}

\* build.seed is the sequence of draws this run of the loop refills from
InitSettle ==
  /\ difficulty \in Difficulties
  /\ board \in ProbeBoards(difficulty)
  /\ build \in {[Built EXCEPT !.seed = seed] : seed \in SettleSeeds}
  /\ gameState = "checking"
  /\ score = 0
  /\ combo = 0
  /\ selectedBlock = NoSelection
  /\ pendingSwap = NoSwap
  /\ movesRemaining = effectiveMaxMoves
  /\ gameMode = "classic"
  /\ timeRemaining = NoNumber
  /\ isGameOver = FALSE
  /\ isLevelComplete = FALSE
  /\ timers = {}
  /\ resets = 0
  /\ swapBase = board
  /\ objectiveProgress = << >>
  /\ heap = NoHeap

settleFrame == <<score, combo, selectedBlock, pendingSwap, movesRemaining, isGameOver,
                 isLevelComplete, timers, resets, swapBase, config, clock,
                 objectiveProgress>>

SettleDetect ==
  /\ gameState = "checking"
  /\ gameState' = IF findMatches(board).matches # << >> THEN "removing" ELSE "idle"
  /\ UNCHANGED <<board, settleFrame>>

SettleRemove ==
  /\ gameState = "removing"
  /\ board' = removeMatches(board, findMatches(board)).board
  /\ gameState' = "falling"
  /\ UNCHANGED settleFrame

SettleGravity ==
  /\ gameState = "falling"
  /\ board' = applyGravity(board)
  /\ gameState' = "filling"
  /\ UNCHANGED settleFrame

SettleFill ==
  /\ gameState = "filling"
  /\ board' = fillEmptySpaces(board, build.seed)
  /\ gameState' = "checking"
  /\ UNCHANGED settleFrame

NextSettle ==
  \/ SettleDetect
  \/ SettleRemove
  \/ SettleGravity
  \/ SettleFill

SpecSettle == InitSettle /\ [][NextSettle]_vars

\* every phase of the loop is followed by the next one
FairSettle == SpecSettle /\ WF_vars(NextSettle)

(***************************************************************************)
(* The settling loop on boards that hold matched propellers                *)
(***************************************************************************)
\* the cells of the rows in rows take the colour of the propeller the
\* special seeding put in column 1 of the row of the same parity
paintRows(b, rows) ==
  [i \in Idx |-> [j \in Idx |->
     IF i \in rows /\ ~isBlocker(b[i][j])
     THEN [b[i][j] EXCEPT !.color = b[IF i % 2 = 1 THEN 1 ELSE 2][1].color]
     ELSE b[i][j]]]

\* boards handed to the loop: the constructed board of the easy mode, its
\* propellers in rows 1 and 2, whose rows 1 .. k (or all rows) have been
\* refilled one colour per row
PropellerBoards ==
  {paintRows(createInitialBoard("easy", seed, SpecialPlacement, RocketTypes(flip)), rows) :
     seed \in Seeds, flip \in 0 .. 1, rows \in {1 .. k : k \in 2 .. GRID_SIZE - 1} \cup {Idx}}

InitPropel ==
  /\ difficulty = "easy"
  /\ board \in PropellerBoards
  /\ build \in {[Built EXCEPT !.seed = seed] : seed \in SettleSeeds}
  /\ gameState = "checking"
  /\ score = 0
  /\ combo = 0
  /\ selectedBlock = NoSelection
  /\ pendingSwap = NoSwap
  /\ movesRemaining = effectiveMaxMoves
  /\ gameMode = "classic"
  /\ timeRemaining = NoNumber
  /\ isGameOver = FALSE
  /\ isLevelComplete = FALSE
  /\ timers = {}
  /\ resets = 0
  /\ swapBase = board
  /\ objectiveProgress = << >>
  /\ heap = NoHeap

SpecPropel == InitPropel /\ [][NextSettle]_vars

(***************************************************************************)
(* The phase functions on objects.  A Board is an array of row arrays of   *)
(* Block objects, and a Block holds null or an obstacle object.  objs maps *)
(* each object to its contents: a row array to the blocks it holds, a      *)
(* block to its fields, an obstacle to its type and health.  An object is  *)
(* named <<kind, allocator, row, col>> after the code that allocated it    *)
(* and the cell it was allocated for.  No function writes an outer array:  *)
(* a board reference is the value [row -> row array].                      *)
(***************************************************************************)
Null == <<"null", "", 0, 0>>

\* the object { ...block, obstacle }
Obj(block, obstacle) ==
  [color |-> block.color, specialType |-> block.specialType, obstacle |-> obstacle]

\* the objects of a board of value b as its creator holds it
allocate(b) ==
  [objs |-> [o \in {<<"row", "caller", r, 0>> : r \in Idx}
                   \cup {<<"block", "caller", p.row, p.col>> : p \in AllPos}
                   \cup {<<"obstacle", "caller", p.row, p.col>> :
                           p \in {q \in AllPos : hasObstacle(b[q.row][q.col])}} |->
              IF o[1] = "row" THEN [c \in Idx |-> <<"block", "caller", o[3], c>>]
              ELSE IF o[1] = "block"
              THEN Obj(b[o[3]][o[4]], IF hasObstacle(b[o[3]][o[4]])
                                      THEN <<"obstacle", "caller", o[3], o[4]>> ELSE Null)
              ELSE b[o[3]][o[4]].obstacle],
   ref |-> [r \in Idx |-> <<"row", "caller", r, 0>>]]

\* the value of the board read through ref
readBoard(objs, ref) ==
  [r \in Idx |-> [c \in Idx |->
     The({Blk(block.color, block.specialType,
              IF block.obstacle = Null THEN NoObstacle ELSE objs[block.obstacle]) :
            block \in {objs[objs[ref[r]][c]]}})]]

\* cloneBoard copying the blocks but not their obstacle records
cloneBoardSharingObstacles(objs, ref) ==
  [objs |-> [o \in {<<"row", "clone", r, 0>> : r \in Idx}
                   \cup {<<"block", "clone", p.row, p.col>> : p \in AllPos} |->
              IF o[1] = "row" THEN [c \in Idx |-> <<"block", "clone", o[3], c>>]
              ELSE objs[objs[ref[o[3]]][o[4]]]] @@ objs,
   ref |-> [r \in Idx |-> <<"row", "clone", r, 0>>]]

\* board.map(row => row.map(block => ({ ...block, obstacle: block.obstacle
\* ? { ...block.obstacle } : null }))): a new outer array, a new array per
\* row, a new object per block and a new object per obstacle
cloneBoard(objs, ref) ==
  [objs |-> [o \in {<<"row", "clone", r, 0>> : r \in Idx}
                   \cup {<<"block", "clone", p.row, p.col>> : p \in AllPos}
                   \cup {<<"obstacle", "clone", p.row, p.col>> :
                           p \in {q \in AllPos : objs[objs[ref[q.row]][q.col]].obstacle # Null}} |->
              IF o[1] = "row" THEN [c \in Idx |-> <<"block", "clone", o[3], c>>]
              ELSE IF o[1] = "block"
              THEN [objs[objs[ref[o[3]]][o[4]]] EXCEPT
                      !.obstacle = IF @ = Null THEN Null ELSE <<"obstacle", "clone", o[3], o[4]>>]
              ELSE objs[objs[objs[ref[o[3]]][o[4]]].obstacle]] @@ objs,
   ref |-> [r \in Idx |-> <<"row", "clone", r, 0>>]]

\* newBoard[row][col] = { ... } for the cells of DOMAIN written: the row
\* array ref[row] gets a newly allocated block of contents written[cell]
setElements(objs, ref, written) ==
  [o \in {<<"block", "new", p.row, p.col>> : p \in DOMAIN written} |-> written[Pos(o[3], o[4])]]
  @@ [o \in DOMAIN objs |->
        IF \E r \in Idx : ref[r] = o
        THEN [c \in Idx |->
                IF \E r \in Idx : ref[r] = o /\ Pos(r, c) \in DOMAIN written
                THEN <<"block", "new", CHOOSE r \in Idx : ref[r] = o /\ Pos(r, c) \in DOMAIN written, c>>
                ELSE objs[o][c]]
        ELSE objs[o]]

\* swapBlocks: the clone's two cells get new objects, each a spread of the
\* block the clone held in the other cell
swapBlocksOnHeap(objs, ref, row1, col1, row2, col2) ==
  The({[objs |-> setElements(newBoard.objs, newBoard.ref,
                             (Pos(row1, col1) :> newBoard.objs[newBoard.objs[newBoard.ref[row2]][col2]])
                             @@ (Pos(row2, col2) :> newBoard.objs[newBoard.objs[newBoard.ref[row1]][col1]])),
        ref |-> newBoard.ref] :
         newBoard \in {cloneBoard(objs, ref)}})

\* removeMatches: block.obstacle.health -= 1 and block.obstacle = null are
\* writes to the obstacle and the block the clone holds in the cell; a
\* removed or created block is a new object put into the clone's row
removeMatchesOnHeap(objs, ref, mr) ==
  The({The({[objs |-> setElements(
                        [o \in DOMAIN newBoard.objs |->
                           IF \E p \in AllPos :
                                /\ newBoard.objs[newBoard.objs[newBoard.ref[p.row]][p.col]].obstacle = o
                                /\ st.board[p.row][p.col] # before[p.row][p.col]
                           THEN [newBoard.objs[o] EXCEPT !.health =
                                   The({IF hasObstacle(after) THEN after.obstacle.health ELSE 0 :
                                          after \in {st.board[q.row][q.col] :
                                                       q \in {p \in AllPos :
                                                                newBoard.objs[newBoard.objs[newBoard.ref[p.row]][p.col]].obstacle = o}}})]
                           ELSE IF \E p \in AllPos :
                                     /\ newBoard.objs[newBoard.ref[p.row]][p.col] = o
                                     /\ hasObstacle(before[p.row][p.col])
                                     /\ ~hasObstacle(st.board[p.row][p.col])
                           THEN [newBoard.objs[o] EXCEPT !.obstacle = Null]
                           ELSE newBoard.objs[o]],
                        newBoard.ref,
                        [p \in {q \in st.toRemove : ~isBlocker(st.board[q.row][q.col])} |->
                           Obj(removeOrCreate(st.board[p.row][p.col], p, mr), Null)]),
             ref |-> newBoard.ref,
             clearedCount |-> Cardinality(st.toRemove)] :
              st \in {removalState(before, mr)}}) :
         newBoard \in {cloneBoard(objs, ref)}, before \in {readBoard(objs, ref)}})

\* applyGravity: a block that falls is a new object, a spread of the block
\* the clone held in the cell it leaves (from), put into the clone's row;
\* the cell it leaves gets a new empty block
applyGravityOnHeap(objs, ref) ==
  The({The({[objs |-> setElements(
                        newBoard.objs, newBoard.ref,
                        [p \in {q \in AllPos : \/ "from" \notin DOMAIN fallen[q.col][q.row]
                                               \/ fallen[q.col][q.row].from # q.row} |->
                           IF "from" \in DOMAIN fallen[p.col][p.row]
                           THEN newBoard.objs[newBoard.objs[newBoard.ref[fallen[p.col][p.row].from]][p.col]]
                           ELSE Obj(EmptyBlock, Null)]),
             ref |-> newBoard.ref] :
              fallen \in {[c \in Idx |->
                             gravityColumn([r \in Idx |->
                                              [color |-> before[r][c].color,
                                               specialType |-> before[r][c].specialType,
                                               obstacle |-> before[r][c].obstacle,
                                               from |-> r]],
                                           GRID_SIZE - 1, GRID_SIZE - 1)]}}) :
         newBoard \in {cloneBoard(objs, ref)}, before \in {readBoard(objs, ref)}})

\* fillEmptySpaces: an empty cell that is no blocker gets a new block
fillEmptySpacesOnHeap(objs, ref, seed) ==
  The({[objs |-> setElements(
                   newBoard.objs, newBoard.ref,
                   [p \in toFill(before) |->
                      Obj(Blk(fillColor(seed, drawIndex(before, p)), "none", NoObstacle), Null)]),
        ref |-> newBoard.ref] :
         newBoard \in {cloneBoard(objs, ref)}, before \in {readBoard(objs, ref)}})

\* board is the value the argument had when the caller made the call
InitPure ==
  /\ difficulty = "easy"
  /\ board \in ProbeBoards(difficulty)
  /\ build \in {[Built EXCEPT !.seed = seed] : seed \in SettleSeeds}
  /\ gameState = "checking"
  /\ score = 0
  /\ combo = 0
  /\ selectedBlock = NoSelection
  /\ pendingSwap = NoSwap
  /\ movesRemaining = effectiveMaxMoves
  /\ gameMode = "classic"
  /\ timeRemaining = NoNumber
  /\ isGameOver = FALSE
  /\ isLevelComplete = FALSE
  /\ timers = {}
  /\ resets = 0
  /\ swapBase = board
  /\ objectiveProgress = << >>
  /\ heap = [objs |-> allocate(board).objs, arg |-> allocate(board).ref, res |-> << >>,
             call |-> "none", passes |-> 0]

callerFrame == <<board, gameState, score, combo, selectedBlock, pendingSwap, movesRemaining,
                 isGameOver, isLevelComplete, timers, resets, swapBase, objectiveProgress,
                 difficulty, build, clock>>

CallRemoveMatches ==
  /\ heap.call = "none"
  /\ heap' = The({[heap EXCEPT !.objs = out.objs, !.res = out.ref, !.call = "removeMatches"] :
                    out \in {removeMatchesOnHeap(heap.objs, heap.arg,
                                                 findMatches(readBoard(heap.objs, heap.arg)))}})
  /\ UNCHANGED callerFrame

CallApplyGravity ==
  /\ heap.call = "none"
  /\ heap' = The({[heap EXCEPT !.objs = out.objs, !.res = out.ref, !.call = "applyGravity"] :
                    out \in {applyGravityOnHeap(heap.objs, heap.arg)}})
  /\ UNCHANGED callerFrame

CallFillEmptySpaces ==
  /\ heap.call = "none"
  /\ heap' = The({[heap EXCEPT !.objs = out.objs, !.res = out.ref, !.call = "fillEmptySpaces"] :
                    out \in {fillEmptySpacesOnHeap(heap.objs, heap.arg, build.seed)}})
  /\ UNCHANGED callerFrame

CallSwapBlocks ==
  /\ heap.call = "none"
  /\ \E from \in SwapWindow, d \in {<<0, 1>>, <<1, 0>>} :
       heap' = The({[heap EXCEPT !.objs = out.objs, !.res = out.ref, !.call = "swapBlocks"] :
                      out \in {swapBlocksOnHeap(heap.objs, heap.arg, from.row, from.col,
                                                from.row + d[1], from.col + d[2])}})
  /\ UNCHANGED callerFrame

\* a caller of cloneBoard writes to the clone: an element of a row array,
\* a field of a block, the health of an obstacle
MutateClone ==
  /\ heap.call = "none"
  /\ \E p \in {Pos(1, 2)}, write \in {"element", "color", "health", "obstacle"} :
       /\ write = "health" => heap.objs[heap.objs[heap.arg[p.row]][p.col]].obstacle # Null
       /\ heap' = The({[heap EXCEPT
             !.objs = IF write = "element"
                      THEN setElements(clone.objs, clone.ref, p :> Obj(EmptyBlock, Null))
                      ELSE IF write = "color"
                      THEN [clone.objs EXCEPT ![clone.objs[clone.ref[p.row]][p.col]].color = EMPTY]
                      ELSE IF write = "health"
                      THEN [clone.objs EXCEPT
                              ![clone.objs[clone.objs[clone.ref[p.row]][p.col]].obstacle].health = @ - 1]
                      ELSE [clone.objs EXCEPT ![clone.objs[clone.ref[p.row]][p.col]].obstacle = Null],
             !.res = clone.ref,
             !.call = "cloneBoard"] :
               clone \in {cloneBoard(heap.objs, heap.arg)}})
  /\ UNCHANGED callerFrame

\* the caller drops the argument and hands the board a phase function
\* returned to the next call; the objects are renamed to the caller's names
Pass ==
  /\ heap.call \in {"removeMatches", "applyGravity", "fillEmptySpaces"}
  /\ heap.passes < MaxPasses
  /\ board' = readBoard(heap.objs, heap.res)
  /\ heap' = The({[objs |-> held.objs, arg |-> held.ref, res |-> << >>, call |-> "none",
                   passes |-> heap.passes + 1] :
                    held \in {allocate(readBoard(heap.objs, heap.res))}})
  /\ UNCHANGED <<gameState, score, combo, selectedBlock, pendingSwap, movesRemaining,
                 isGameOver, isLevelComplete, timers, resets, swapBase, objectiveProgress,
                 difficulty, build, clock>>

NextPure ==
  \/ CallRemoveMatches
  \/ CallApplyGravity
  \/ CallFillEmptySpaces
  \/ CallSwapBlocks
  \/ MutateClone
  \/ Pass

SpecPure == InitPure /\ [][NextPure]_vars

(***************************************************************************)
(* Properties                                                              *)
(***************************************************************************)
\* matchable = has a colour and is not a blocker
Matchable(b, r, c) ==
  inBounds(r, c) /\ b[r][c].color # EMPTY /\ b[r][c].obstacle.type # "blocker"

\* the cells (r, c), (r + dr, c + dc), (r + 2dr, c + 2dc) are matchable and
\* of one colour
Triple(b, r, c, dr, dc) ==
  /\ Matchable(b, r, c) /\ Matchable(b, r + dr, c + dc) /\ Matchable(b, r + 2 * dr, c + 2 * dc)
  /\ b[r][c].color = b[r + dr][c + dc].color
  /\ b[r][c].color = b[r + 2 * dr][c + 2 * dc].color

\* a row or column run of 3 or more equal matchable colours exists
HasRun(b) ==
  \E r \in Idx, c \in Idx : Triple(b, r, c, 0, 1) \/ Triple(b, r, c, 1, 0)

ForwardSwapPending == pendingSwap.some /\ ~pendingSwap.isReverse
ReverseSwapPending == pendingSwap.some /\ pendingSwap.isReverse

\* the pending swap exchanges two cells of the board that are not both
\* special, and the exchanged board has no run
InvalidSwapPending ==
  /\ ForwardSwapPending
  /\ inBounds(pendingSwap.from.row, pendingSwap.from.col)
  /\ inBounds(pendingSwap.to.row, pendingSwap.to.col)
  /\ ~(/\ isSpecial(board[pendingSwap.from.row][pendingSwap.from.col].specialType)
       /\ isSpecial(board[pendingSwap.to.row][pendingSwap.to.col].specialType))
  /\ ~HasRun(swapBlocks(board, pendingSwap.from.row, pendingSwap.from.col,
                        pendingSwap.to.row, pendingSwap.to.col))

C1_Step ==
  /\ (InvalidSwapPending /\ pendingSwap' # pendingSwap)
       => (ReverseSwapPending' /\ gameState' = "animating")
  /\ (ReverseSwapPending /\ pendingSwap' # pendingSwap)
       => (board' = swapBase /\ gameState' = "idle")

\* C1: a swap of two cells that are not both special and whose swapped
\* board has no match is followed by the reverse swap before the driver is
\* idle again, and the board the driver then holds is the pre-swap board,
\* cell for cell.
C1_InvalidSwapReverts == [][C1_Step]_vars

\* a swap was reverted: a move is spent, nothing was scored, the driver is
\* idle on the board the swap started from
C1_Witness ==
  /\ gameState = "idle"
  /\ ~pendingSwap.some
  /\ movesRemaining < effectiveMaxMoves
  /\ score = 0
  /\ board = swapBase

C3_BadCoordinatesRejected ==
  ForwardSwapPending =>
    /\ inBounds(pendingSwap.from.row, pendingSwap.from.col)
    /\ inBounds(pendingSwap.to.row, pendingSwap.to.col)
    /\ areAdjacent(pendingSwap.from.row, pendingSwap.from.col,
                   pendingSwap.to.row, pendingSwap.to.col)

\* the board was produced by fillEmptySpaces after applyGravity and waits
\* for the checking phase
Refilled == gameState = "checking" /\ combo > 0

C5_NoRunAfterConstruction == build.phase \in {"initial", "done"} => ~HasRun(board)

\* C6: the settling loop stops for every choice of refill colours: a cascade
\* once begun returns to idle, the state in which findMatches has returned no
\* matches on the board.
C6_SettlingTerminates == <>(gameState = "idle")

\* the clear set the removal at hand works through
ClearSets ==
  {t.toRemove : t \in {u \in timers : u.kind = "comboRemove"}}
  \cup {removalState(t.board, findMatches(t.board)).toRemove : t \in {u \in timers : u.kind = "remove"}}

C7_Step ==
  /\ gameState \in {"removing", "falling", "filling"}
       => \A r \in Idx, c \in Idx : isBlocker(board[r][c]) => board'[r][c] = board[r][c]
  /\ \A cleared \in ClearSets : \A p \in cleared : ~isBlocker(board[p.row][p.col])

C8_BlockerCell ==
  \A r \in Idx, c \in Idx :
    isBlocker(board[r][c]) =>
      /\ board[r][c].color = EMPTY
      /\ board[r][c].specialType = "none"
      /\ Pos(r, c) \notin SeqToSet(Flatten(findMatches(board).matches))

\* cell number i (from 0) of the line through (r, c)
RunCell(horizontal, r, c, i) == IF horizontal THEN Pos(r, c + i) ELSE Pos(r + i, c)
RunCells(horizontal, r, c, len) == {RunCell(horizontal, r, c, i) : i \in 0 .. (len - 1)}

\* the len cells from (r, c) on are a whole run: matchable, of one colour,
\* and not continued on either side
ExactRun(b, horizontal, r, c, len) ==
  /\ \A p \in RunCells(horizontal, r, c, len) :
       Matchable(b, p.row, p.col) /\ b[p.row][p.col].color = b[r][c].color
  /\ \A p \in {RunCell(horizontal, r, c, -1), RunCell(horizontal, r, c, len)} :
       ~(Matchable(b, p.row, p.col) /\ b[p.row][p.col].color = b[r][c].color)

\* a cell lies on a run of the other direction
Crossed(b, horizontal, p) ==
  \E i \in 0 .. 2 :
    IF horizontal THEN Triple(b, p.row - i, p.col, 1, 0) ELSE Triple(b, p.row, p.col - i, 0, 1)

PlainRun(b, horizontal, r, c, len) ==
  /\ ExactRun(b, horizontal, r, c, len)
  /\ \A p \in RunCells(horizontal, r, c, len) : ~Crossed(b, horizontal, p)

\* the entries of a creation list that lie on the cells
CreationsOn(creations, cells) ==
  {i \in 1 .. Len(creations) : PosOf(creations[i]) \in cells}

C9_Run(b, horizontal, r, c) ==
  LET mr == findMatches(b)
      four == RunCells(horizontal, r, c, 4)
      five == RunCells(horizontal, r, c, 5)
  IN /\ PlainRun(b, horizontal, r, c, 4) =>
          /\ Cardinality(CreationsOn(mr.rocketCreations, four)) = 1
          /\ \A i \in CreationsOn(mr.rocketCreations, four) :
               /\ PosOf(mr.rocketCreations[i]) = RunCell(horizontal, r, c, 4 \div 2)
               /\ mr.rocketCreations[i].type = IF horizontal THEN "rocket-h" ELSE "rocket-v"
          /\ CreationsOn(mr.rainbowCreations, four) = {}
     /\ PlainRun(b, horizontal, r, c, 5) =>
          /\ Cardinality(CreationsOn(mr.rainbowCreations, five)) = 1
          /\ \A i \in CreationsOn(mr.rainbowCreations, five) :
               PosOf(mr.rainbowCreations[i]) = RunCell(horizontal, r, c, 5 \div 2)
          /\ CreationsOn(mr.rocketCreations, five) = {}

\* C9: for a run of exactly 4 with no run crossing it findMatches records
\* exactly one rocket creation on the run, at index floor(4 / 2), rocket-h
\* for a row and rocket-v for a column, and no rainbow creation; for a run
\* of exactly 5, exactly one rainbow creation, at index floor(5 / 2), and no
\* rocket creation.
C9_RunLengthToCreation ==
  \A horizontal \in BOOLEAN, r \in Idx, c \in Idx : C9_Run(board, horizontal, r, c)

\* findMatches has run on a board with a plain row of 4 and a plain column
\* of 5 and has recorded creations of both kinds
C9_Witness ==
  /\ gameState = "removing"
  /\ \E r \in Idx, c \in Idx : PlainRun(board, TRUE, r, c, 4)
  /\ \E r \in Idx, c \in Idx : PlainRun(board, FALSE, r, c, 5)
  /\ findMatches(board).rocketCreations # << >>
  /\ findMatches(board).rainbowCreations # << >>

\* qualifying hits on cell p in the round that findMatches(b) = mr starts
HitsOn(b, mr, p) ==
  Cardinality({i \in 1 .. Len(mr.obstacleDamage) : PosOf(mr.obstacleDamage[i]) = p})
  + Cardinality({i \in 1 .. Len(mr.rocketActivations) : p \in rocketArea(mr.rocketActivations[i])})
  + Cardinality({i \in 1 .. Len(mr.rainbowActivations) :
                   b[p.row][p.col].color = mr.rainbowActivations[i].targetColor})
  + Cardinality({i \in 1 .. Len(mr.bombActivations) :
                   p \in Area(mr.bombActivations[i].row, mr.bombActivations[i].col, 1)})
  + Cardinality({i \in 1 .. Len(mr.propellerActivations) :
                   p \in Area(mr.propellerActivations[i].targetRow,
                              mr.propellerActivations[i].targetCol, 1)})

ObstacleCells(b) == {p \in AllPos : hasObstacle(b[p.row][p.col])}
ObstaclesOf(b) == {b[p.row][p.col].obstacle : p \in ObstacleCells(b)}

\* the step removes the matches and sweeps of a round
MatchRemoval == gameState = "removing" /\ \E t \in timers : t.kind = "remove"

C10_Step ==
  /\ \A p \in ObstacleCells(board') : board'[p.row][p.col].obstacle.health > 0
  /\ IF MatchRemoval
     THEN \A p \in ObstacleCells(board) :
            LET was == board[p.row][p.col].obstacle
                hits == IF was.type = "blocker" THEN 0
                        ELSE HitsOn(board, findMatches(board), p)
            IN IF hits >= was.health
               THEN ~hasObstacle(board'[p.row][p.col])
               ELSE board'[p.row][p.col].obstacle = [was EXCEPT !.health = was.health - hits]
     ELSE /\ Cardinality(ObstacleCells(board')) = Cardinality(ObstacleCells(board))
          /\ ObstaclesOf(board') = ObstaclesOf(board)

RocketFusionPending ==
  /\ ForwardSwapPending
  /\ inBounds(pendingSwap.from.row, pendingSwap.from.col)
  /\ inBounds(pendingSwap.to.row, pendingSwap.to.col)
  /\ IsRocket(board[pendingSwap.from.row][pendingSwap.from.col].specialType)
  /\ IsRocket(board[pendingSwap.to.row][pendingSwap.to.col].specialType)

Cross(p) == RowCells(p.row) \cup ColCells(p.col)

FullBoard(b) == \A p \in AllPos : b[p.row][p.col].color # EMPTY

C11_Step ==
  /\ (RocketFusionPending /\ FullBoard(board) /\ pendingSwap' = NoSwap)
       => /\ score' = score + 425
          /\ \E t \in timers' \ timers :
               /\ t.kind = "comboRemove"
               /\ t.toRemove = Cross(pendingSwap.to)
               /\ Cardinality(t.toRemove) = 15
  /\ \A t \in timers \ timers' :
       t.kind = "comboRemove"
         => \A p \in AllPos :
              IF p \in t.toRemove
              THEN board'[p.row][p.col].color = EMPTY
              ELSE board'[p.row][p.col] = t.board[p.row][p.col]

\* C11: fusing two rockets at the swap cell (r, c) of a full board clears
\* exactly the 15 cells of row r and column c, no other cell, and awards
\* exactly 200 + 15 * 15 = 425 points.
C11_RocketRocketCross == [][C11_Step]_vars

\* the cross of a rocket-rocket fusion has just been emptied
C11_Witness ==
  /\ gameState = "falling"
  /\ score = 425
  /\ \E q \in AllPos :
       /\ \A p \in AllPos : (board[p.row][p.col].color = EMPTY) <=> (p \in Cross(q))
       /\ IsRocket(swapBase[q.row][q.col].specialType)

\* C12: the propellers matched in one findMatches call get targets that are
\* not their own origin cells, are pairwise different, and lie outside each
\* other's 3x3 clear areas.
C12_PropellerTargets ==
  gameState = "removing"
    => LET acts == findMatches(board).propellerActivations
       IN \A i \in 1 .. Len(acts) :
            /\ Pos(acts[i].targetRow, acts[i].targetCol) # Pos(acts[i].row, acts[i].col)
            /\ \A j \in 1 .. Len(acts) :
                 i # j => Pos(acts[j].targetRow, acts[j].targetCol)
                            \notin Area(acts[i].targetRow, acts[i].targetCol, 1)

\* two propellers are matched at once and share no target area
C12_TwoPropellersApart ==
  /\ gameState = "removing"
  /\ LET acts == findMatches(board).propellerActivations
     IN /\ Len(acts) = 2
        /\ Pos(acts[2].targetRow, acts[2].targetCol)
             \notin Area(acts[1].targetRow, acts[1].targetCol, 1)

\* the step is a call of resetGame
ResetStep == resets' # resets

C13_Step ==
  /\ gameState # "idle" => ~ResetStep
  /\ (gameState = "idle" /\ ~ResetStep)
       => board' = board /\ gameState' \in {"idle", "animating"}

\* C13: from the acceptance of a swap until the driver is idle again only
\* the phase steps of that move write the board and the game state:
\* resetGame does not write them in between, and once the driver is idle (the
\* cycle finished or reset) no timer callback writes them.
C13_ExclusiveOwnership == [][C13_Step]_vars

\* the driver is busy with a move, or the game is over
SwapsRefused == gameState # "idle" \/ isGameOver

C14_Step ==
  /\ SwapsRefused
       => /\ movesRemaining' = movesRemaining
          /\ pendingSwap' = pendingSwap \/ pendingSwap.some
  /\ (SwapsRefused /\ (HandleSwipe \/ HandleBlockPress))
       => UNCHANGED <<board, score, movesRemaining, selectedBlock, pendingSwap, gameState>>

\* C14: while gameState is not idle, or the game is over, a call of
\* handleSwipe or handleBlockPress changes nothing: no move is spent, no swap
\* becomes pending, and board, score, selection and gameState stay as they are.
C14_SwapsRefusedWhileBusy == [][C14_Step]_vars

\* the game is over and the player can still ask for a swap
C14_Witness == isGameOver /\ gameState = "idle" /\ swapsLeft > 0

\* the step brings the driver back to idle
EntersIdle == gameState # "idle" /\ gameState' = "idle" /\ ~ResetStep

\* C15: whenever the driver enters idle with no move left and the level not
\* complete, the game is over, on every path into idle.
C15_GameOverOnIdle ==
  [][(EntersIdle /\ movesRemaining' = 0 /\ ~isLevelComplete') => isGameOver']_vars

\* every objective has reached its target
AllObjectivesReached ==
  \A i \in 1 .. Len(objectiveProgress) :
    objectiveProgress[i].current >= objectiveProgress[i].target

\* C16: isLevelComplete is set only when every objective has reached its
\* target (and is then set at last: the callback that sets it is pending from
\* the update that completed the last objective).
C16_LevelCompleteSignal ==
  /\ isLevelComplete => AllObjectivesReached
  /\ (objectiveProgress # << >> /\ AllObjectivesReached /\ resets = 0)
       => isLevelComplete \/ LevelCompleteTimer \in timers

\* sum over the first n matches of 10 x length + 15 x max(0, length - 3)
RECURSIVE RunPoints(_, _)
RunPoints(matches, n) ==
  IF n = 0 THEN 0
  ELSE LET length == Len(matches[n].blocks)
       IN 10 * length + 15 * (IF length - 3 > 0 THEN length - 3 ELSE 0)
          + RunPoints(matches, n - 1)

ScoreFormula(matchResult) ==
  RunPoints(matchResult.matches, Len(matchResult.matches))
  + 50 * Len(matchResult.rocketActivations) + 100 * Len(matchResult.rainbowActivations)
  + 75 * Len(matchResult.bombActivations) + 60 * Len(matchResult.propellerActivations)

\* C17: calculateScore of a match result is the sum over its matches of
\* 10 x length + 15 x max(0, length - 3), plus 50 per rocket, 100 per
\* rainbow, 75 per bomb and 60 per propeller activation.
C17_ScoreFormula ==
  gameState = "removing" => calculateScore(findMatches(board)) = ScoreFormula(findMatches(board))

\* a round with a match longer than 3 and a rocket activation is scored
C17_Witness ==
  /\ gameState = "removing"
  /\ findMatches(board).rocketActivations # << >>
  /\ \E i \in 1 .. Len(findMatches(board).matches) : Len(findMatches(board).matches[i].blocks) > 3

\* C19: whenever the driver is idle every non-blocker cell of the board has
\* a colour.
C19_NoEmptyCellWhenIdle ==
  gameState = "idle"
    => \A p \in AllPos : isBlocker(board[p.row][p.col]) \/ board[p.row][p.col].color # EMPTY

\* C20: findMatches reports every maximal row run and every maximal column
\* run of 3 or more equal matchable colours as one match of its direction
\* holding every cell of the run, a cell at a crossing being in both matches.
C20_WholeRunsBothAxes ==
  gameState = "removing"
    => \A horizontal \in BOOLEAN, r \in Idx, c \in Idx, len \in 3 .. GRID_SIZE :
         ExactRun(board, horizontal, r, c, len)
           => \E i \in 1 .. Len(findMatches(board).matches) :
                /\ findMatches(board).matches[i].direction
                     = IF horizontal THEN "horizontal" ELSE "vertical"
                /\ SeqToSet(findMatches(board).matches[i].blocks)
                     = RunCells(horizontal, r, c, len)

\* C18: after a call of removeMatches, applyGravity, fillEmptySpaces or
\* swapBlocks, and after any write to a board cloneBoard returned, the
\* argument board reads as it did before the call in every cell, obstacle
\* health included, and the returned board is made of other objects: no row
\* array, block or obstacle reachable from it is reachable from the argument.
Reachable(objs, ref) ==
  {ref[r] : r \in Idx}
    \cup {objs[ref[p.row]][p.col] : p \in AllPos}
    \cup ({objs[objs[ref[p.row]][p.col]].obstacle : p \in AllPos} \ {Null})

C18_Pure ==
  heap # NoHeap =>
    /\ readBoard(heap.objs, heap.arg) = board
    /\ heap.res # << >> =>
         Reachable(heap.objs, heap.res) \cap Reachable(heap.objs, heap.arg) = {}

\* a call of removeMatches that lowered the health of an obstacle or
\* destroyed it has returned
C18_Witness ==
  /\ heap # NoHeap
  /\ heap.call = "removeMatches"
  /\ \E p \in AllPos :
       /\ hasObstacle(board[p.row][p.col])
       /\ readBoard(heap.objs, heap.res)[p.row][p.col].obstacle # board[p.row][p.col].obstacle

\* C21: whenever a row run of 3 or more and a column run of 3 or more cross
\* in a cell, findMatches records a rainbow creation at that cell, exactly
\* one.
C21_CrossingCreatesRainbow ==
  gameState = "removing"
    => \A p \in AllPos :
         (Crossed(board, TRUE, p) /\ Crossed(board, FALSE, p))
           => Cardinality(CreationsOn(findMatches(board).rainbowCreations, {p})) = 1

\* the phase changes of the cascade driver
PhaseEdges ==
  {<<"idle", "animating">>, <<"animating", "checking">>, <<"animating", "idle">>,
   <<"animating", "removing">>, <<"checking", "removing">>, <<"removing", "falling">>,
   <<"falling", "filling">>, <<"filling", "checking">>, <<"checking", "idle">>}

C22_Step ==
  (gameState' # gameState /\ ~ResetStep)
    => /\ <<gameState, gameState'>> \in PhaseEdges
       /\ gameState = "animating"
            => IF gameState' = "idle" THEN ReverseSwapPending ELSE ForwardSwapPending

\* C22: apart from the step of a game reset, gameState changes only along
\* idle -> animating, animating -> checking, animating -> idle (the
\* reverted swap), animating -> removing, checking -> removing, removing ->
\* falling, falling -> filling, filling -> checking and checking -> idle:
\* in every round removal precedes gravity and gravity precedes refill.
C22_PhaseOrdering == [][C22_Step]_vars

\* the step is a cascade round: processMatches running on the board
CascadeRound == gameState = "checking" /\ gameState' # "checking"

C23_Step ==
  /\ combo' # combo => CascadeRound
  /\ CascadeRound =>
       IF findMatches(board).matches # << >>
       THEN /\ combo' = combo + 1
            /\ 2 * (score' - score) <= calculateScore(findMatches(board)) * (2 + combo)
            /\ 2 * (score' - score) + 2 > calculateScore(findMatches(board)) * (2 + combo)
       ELSE combo' = 0 /\ score' = score
  /\ (gameState = "idle" /\ gameState' = "animating") => combo = 0

\* C23: the combo count is 0 when a move starts and changes only in a
\* cascade round: a round that finds a match adds one to it and a round
\* that finds none sets it to 0, so that it is 0 at the first round of every
\* move; a round with count k adds floor(calculateScore(result) * (1 + 0.5 *
\* k)) to the score.
C23_ComboMultiplier == [][C23_Step]_vars

\* the pending swap has a special token on both of its cells
FusionPending ==
  /\ ForwardSwapPending
  /\ inBounds(pendingSwap.from.row, pendingSwap.from.col)
  /\ inBounds(pendingSwap.to.row, pendingSwap.to.col)
  /\ isSpecial(board[pendingSwap.from.row][pendingSwap.from.col].specialType)
  /\ isSpecial(board[pendingSwap.to.row][pendingSwap.to.col].specialType)

\* the cells the removal scheduled by a fusion empties
ClearedBy(t) ==
  {p \in AllPos : /\ t.board[p.row][p.col].color # EMPTY
                  /\ comboRemoval(t.board, t.toRemove)[p.row][p.col].color = EMPTY}

C24_Step ==
  (FusionPending /\ pendingSwap' = NoSwap /\ ~ResetStep)
    => \E t \in timers' \ timers :
         /\ t.kind = "comboRemove"
         /\ score' = score + 200 + 15 * Cardinality(ClearedBy(t))

FusionRemovalPending == \E t \in timers : t.kind = "comboRemove"

C25_Step ==
  /\ (FusionPending /\ pendingSwap' # pendingSwap /\ ~ResetStep)
       => /\ pendingSwap' = NoSwap
          /\ gameState' = "removing"
          /\ board' = swapBlocks(board, pendingSwap.from.row, pendingSwap.from.col,
                                 pendingSwap.to.row, pendingSwap.to.col)
          /\ \E t \in timers' \ timers : t.kind = "comboRemove" /\ t.board = board'
  /\ FusionRemovalPending => gameState = "removing" /\ ~CascadeRound

\* C25: a completed swap whose two cells both hold a special token runs a
\* fusion and is not reverted, whether or not the swapped board holds a
\* match, and findMatches is not applied to the swapped board before the
\* fusion's clear set is removed.
C25_FusionTrigger == [][C25_Step]_vars

\* a fusion is under way on a swapped board without any match: the swap
\* of two plain cells would have been reverted
C25_Witness ==
  /\ gameState = "removing"
  /\ \E t \in timers : t.kind = "comboRemove" /\ t.board = board /\ ~HasRun(board)

\* the fusion the pending swap would run
PendingComboType ==
  detectComboType(board[pendingSwap.from.row][pendingSwap.from.col].specialType,
                  board[pendingSwap.to.row][pendingSwap.to.col].specialType)

C26_Step ==
  (/\ FusionPending /\ pendingSwap' = NoSwap /\ ~ResetStep
   /\ PendingComboType \in {"propeller-rocket", "propeller-propeller", "propeller-rainbow"})
    => LET targets == findBestPropellerTargets(board', 3, {pendingSwap.to})
       IN /\ Len(targets) = 3
          /\ Cardinality(SeqToSet(targets)) = 3
          /\ pendingSwap.to \notin SeqToSet(targets)
          /\ \E t \in timers' \ timers :
               /\ t.kind = "comboRemove"
               /\ t.toRemove = {pendingSwap.to}
                                 \cup UNION {Area(q.row, q.col, 1) : q \in SeqToSet(targets)}
          /\ targets[1] = propellerTarget(board', {pendingSwap.to})

ClearedBefore(b, matchResult, i) ==
  willBeClearedOf(b, matchResult.matches, matchResult.rocketActivations,
                  matchResult.rainbowActivations, matchResult.bombActivations)
  \cup UNION {Area(matchResult.propellerActivations[j].targetRow,
                   matchResult.propellerActivations[j].targetCol, 1) : j \in 1 .. i - 1}

\* same-colour orthogonal neighbours of p that are not bound to be cleared
SameColourNeighbours(b, p, cleared) ==
  Cardinality({q \in AllPos \ cleared :
                 /\ (q.row = p.row /\ q.col \in {p.col - 1, p.col + 1})
                      \/ (q.col = p.col /\ q.row \in {p.row - 1, p.row + 1})
                 /\ b[q.row][q.col].color = b[p.row][p.col].color})

FreeSpecials(b, cleared) ==
  {p \in AllPos \ cleared : b[p.row][p.col].specialType \notin {"none", "propeller"}}

FreeColoured(b, cleared) == {p \in AllPos \ cleared : b[p.row][p.col].color # EMPTY}

\* t is the target the ordered search (a) .. (d) gives on board b
OrderedSearch(b, cleared, t) ==
  IF FreeSpecials(b, cleared) # {}
  THEN /\ t \in FreeSpecials(b, cleared)
       /\ \A q \in FreeSpecials(b, cleared) :
            specialPriority(b[t.row][t.col].specialType)
              >= specialPriority(b[q.row][q.col].specialType)
  ELSE IF FreeColoured(b, cleared) # {}
  THEN /\ t \in FreeColoured(b, cleared)
       /\ \A q \in FreeColoured(b, cleared) :
            \/ SameColourNeighbours(b, t, cleared) > SameColourNeighbours(b, q, cleared)
            \/ /\ SameColourNeighbours(b, t, cleared) = SameColourNeighbours(b, q, cleared)
               /\ t.row >= q.row
       /\ (\A q \in FreeColoured(b, cleared) : SameColourNeighbours(b, q, cleared) = 0)
            => \A q \in FreeColoured(b, cleared) :
                 t.row > q.row \/ (t.row = q.row /\ t.col <= q.col)
  ELSE t = Pos(GRID_SIZE \div 2, GRID_SIZE \div 2)

\* C27: every propeller matched by findMatches gets the target of the ordered
\* search: a non-propeller special outside the will-be-cleared set of the
\* highest priority if there is one, otherwise the coloured cell outside the
\* set with the most same-colour orthogonal neighbours outside the set (the
\* larger row winning a tie, the first cell from the bottom row upward when
\* no cell has such a neighbour), otherwise the board centre.
C27_PropellerPriority ==
  gameState = "removing"
    => LET mr == findMatches(board)
       IN \A i \in 1 .. Len(mr.propellerActivations) :
            OrderedSearch(board, ClearedBefore(board, mr, i),
                          Pos(mr.propellerActivations[i].targetRow,
                              mr.propellerActivations[i].targetCol))

\* a propeller is matched while no special is left outside the cleared set,
\* and its target is a coloured cell with a same-colour neighbour
C27_Witness ==
  /\ gameState = "removing"
  /\ LET mr == findMatches(board)
     IN \E i \in 1 .. Len(mr.propellerActivations) :
          /\ FreeSpecials(board, ClearedBefore(board, mr, i)) = {}
          /\ SameColourNeighbours(board, Pos(mr.propellerActivations[i].targetRow,
                                             mr.propellerActivations[i].targetCol),
                                  ClearedBefore(board, mr, i)) > 0

(***************************************************************************)
(* C28.  applyGravity, stated per column segment                           *)
(***************************************************************************)

\* the coloured cells of column c from row r down to the next blocker or the
\* board edge, top first
RECURSIVE Stack(_, _, _)
Stack(b, c, r) ==
  IF r >= GRID_SIZE \/ isBlocker(b[r][c]) THEN << >>
  ELSE (IF b[r][c].color # EMPTY THEN << b[r][c] >> ELSE << >>) \o Stack(b, c, r + 1)

\* row r is the top row of a segment of column c
SegmentTop(b, c, r) == ~isBlocker(b[r][c]) /\ (r = 0 \/ isBlocker(b[r - 1][c]))

\* after is before with every column compacted inside its segments
Compacted(before, after) ==
  \A c \in Idx :
    /\ \A r \in Idx :
         /\ isBlocker(before[r][c]) <=> isBlocker(after[r][c])
         /\ isBlocker(before[r][c]) => after[r][c] = before[r][c]
         /\ SegmentTop(before, c, r) => Stack(after, c, r) = Stack(before, c, r)
    /\ \A r \in 1 .. GRID_SIZE - 1 :
         (~isBlocker(after[r][c]) /\ ~isBlocker(after[r - 1][c])
          /\ after[r - 1][c].color # EMPTY) => after[r][c].color # EMPTY

\* C28: applyGravity keeps every blocker where it is and, in every column and
\* every segment between blockers (or a blocker and the board edge), keeps
\* the coloured cells of the segment in their order with their special type
\* and obstacle, and leaves no empty cell below a coloured one of the segment.
C28_GravityCompacts ==
  gameState = "falling" => Compacted(board, applyGravity(board))

\* gravity is applied to a column where a coloured cell rests above a
\* blocker that has an empty cell below it, and a cell of the board falls
C28_Witness ==
  /\ gameState = "falling"
  /\ applyGravity(board) # board
  /\ \E c \in Idx : \E r \in 1 .. GRID_SIZE - 2 :
       /\ isBlocker(board[r][c])
       /\ board[r - 1][c].color # EMPTY
       /\ \E below \in r + 1 .. GRID_SIZE - 1 :
            board[below][c].color = EMPTY /\ ~isBlocker(board[below][c])

(***************************************************************************)
(* C29.  fillEmptySpaces and what it leaves alone                          *)
(***************************************************************************)

\* after is before with every empty non-blocker cell replaced by a fresh
\* block of a palette colour, and no other cell touched
RefillOf(before, after) ==
  \A p \in AllPos :
    IF before[p.row][p.col].color = EMPTY /\ ~isBlocker(before[p.row][p.col])
    THEN /\ after[p.row][p.col].color \in COLORS
         /\ after[p.row][p.col].specialType = "none"
         /\ after[p.row][p.col].obstacle = NoObstacle
    ELSE after[p.row][p.col] = before[p.row][p.col]

\* C29: whatever colours are drawn, fillEmptySpaces leaves no non-blocker cell
\* empty, gives every cell it fills a palette colour with no special type and
\* no obstacle, and leaves every non-empty cell and every blocker as it was.
C29_RefillFrame ==
  gameState = "filling"
    => \A seed \in SettleSeeds :
         /\ RefillOf(board, fillEmptySpaces(board, seed))
         /\ \A p \in AllPos :
              fillEmptySpaces(board, seed)[p.row][p.col].color = EMPTY
                => isBlocker(board[p.row][p.col])

\* a board with a blocker, empty cells and a cell carrying a special is refilled
C29_Witness ==
  /\ gameState = "filling"
  /\ \E p \in AllPos : isBlocker(board[p.row][p.col]) /\ board[p.row][p.col].color = EMPTY
  /\ \E p \in AllPos : ~isBlocker(board[p.row][p.col]) /\ board[p.row][p.col].color = EMPTY
  /\ \E p \in AllPos : board[p.row][p.col].color # EMPTY /\ board[p.row][p.col].specialType # "none"

(***************************************************************************)
(* The settling loop on boards where two runs cross and an obstacle sits   *)
(* on or next to the column run                                            *)
(***************************************************************************)
\* a constructed board carrying a run in row 4 from column 2 on, of 3 or 4
\* cells, and, or not, a run of the same colour in column 3, rows 4 .. 6,
\* which crosses it at (4, 3); an obstacle, if any, sits above, on or below
\* the column run, or on the middle cell (4, 4) of the row run
CrossingBoards ==
  {stamp(stamp(createBoardWithObstacles("easy", obstacles, seed, SpecialPlacement, RocketTypes(0)),
               TRUE, 4, 2, lenH, 1),
         FALSE, 4, 3, lenV, 1) :
     obstacles \in {<< >>}
                   \cup ObstacleLists({Pos(3, 3), Pos(5, 3), Pos(6, 3), Pos(7, 3), Pos(4, 4)}),
     seed \in Seeds, lenH \in {3, 4}, lenV \in {0, 3}}

InitCrossing ==
  /\ difficulty = "easy"
  /\ board \in CrossingBoards
  /\ build \in {[Built EXCEPT !.seed = seed] : seed \in SettleSeeds}
  /\ gameState = "checking"
  /\ score = 0
  /\ combo = 0
  /\ selectedBlock = NoSelection
  /\ pendingSwap = NoSwap
  /\ movesRemaining = effectiveMaxMoves
  /\ gameMode = "classic"
  /\ timeRemaining = NoNumber
  /\ isGameOver = FALSE
  /\ isLevelComplete = FALSE
  /\ timers = {}
  /\ resets = 0
  /\ swapBase = board
  /\ objectiveProgress = << >>
  /\ heap = NoHeap

SpecCrossing == InitCrossing /\ [][NextSettle]_vars

(***************************************************************************)
(* C30.  The obstacle damage findMatches queues                            *)
(***************************************************************************)

\* the cells of the matches findMatches returns
MatchedCells(b) == SeqToSet(Flatten(findMatches(b).matches))

Adjacent(p, q) ==
  \/ p.row = q.row /\ p.col \in {q.col - 1, q.col + 1}
  \/ p.col = q.col /\ p.row \in {q.row - 1, q.row + 1}

\* the ice obstacles orthogonally next to one of the cells
IceNextTo(b, cells) ==
  {q \in AllPos : b[q.row][q.col].obstacle.type = "ice" /\ \E p \in cells : Adjacent(p, q)}

\* the matched cells that carry an obstacle other than a blocker
ObstaclesMatched(b, cells) ==
  {p \in cells : hasObstacle(b[p.row][p.col]) /\ ~isBlocker(b[p.row][p.col])}

\* C30: the damage findMatches queues names no obstacle twice, and its cells
\* are exactly the matched cells carrying a non-blocker obstacle together with
\* the ice obstacles orthogonally adjacent to a matched cell.
C30_IceAdjacency ==
  gameState = "removing"
    => LET damage == findMatches(board).obstacleDamage
       IN /\ \A i \in 1 .. Len(damage), j \in 1 .. Len(damage) :
               PosOf(damage[i]) = PosOf(damage[j]) => i = j
          /\ PosSet(damage) = ObstaclesMatched(board, MatchedCells(board))
                                \cup IceNextTo(board, MatchedCells(board))

(***************************************************************************)
(* C31.  Obstacle damage is applied before the removals are computed       *)
(***************************************************************************)

\* the obstacle on p is named in the queued damage and has one point left
DestroyedByDamage(b, mr, p) ==
  /\ hasObstacle(b[p.row][p.col])
  /\ b[p.row][p.col].obstacle.health <= 1
  /\ p \in PosSet(mr.obstacleDamage)

\* C31: in removeMatches a cell whose obstacle the queued damage destroys and
\* which lies in no match and in no activation area leaves the round with its
\* colour and special type and without the obstacle, and a matched cell whose
\* obstacle the queued damage destroys is removed in the same round (the
\* damage is applied before toRemove is computed).
C31_DamageBeforeRemoval ==
  gameState = "removing"
    => LET mr == findMatches(board)
           after == removeMatches(board, mr).board
       IN \A p \in AllPos :
            DestroyedByDamage(board, mr, p)
              => /\ ~hasObstacle(after[p.row][p.col])
                 /\ p \notin explodingOf(board, mr)
                      => /\ after[p.row][p.col].color = board[p.row][p.col].color
                         /\ after[p.row][p.col].specialType = board[p.row][p.col].specialType
                 /\ p \in MatchedCells(board)
                      => after[p.row][p.col] = removeOrCreate(board[p.row][p.col], p, mr)

\* an obstacle next to a match, on a cell outside every match and area, is
\* destroyed by the queued damage
C31_Witness ==
  /\ gameState = "removing"
  /\ \E p \in AllPos \ explodingOf(board, findMatches(board)) :
       /\ DestroyedByDamage(board, findMatches(board), p)
       /\ board[p.row][p.col].color # EMPTY

(***************************************************************************)
(* C33.  Where the activations of findMatches come from                    *)
(***************************************************************************)

\* the origin cells of the activations of matchResult, list by list
ActivationOrigins(matchResult) ==
  [i \in 1 .. Len(matchResult.rocketActivations) |-> PosOf(matchResult.rocketActivations[i])]
  \o [i \in 1 .. Len(matchResult.rainbowActivations) |-> PosOf(matchResult.rainbowActivations[i])]
  \o [i \in 1 .. Len(matchResult.bombActivations) |-> PosOf(matchResult.bombActivations[i])]
  \o [i \in 1 .. Len(matchResult.propellerActivations) |-> PosOf(matchResult.propellerActivations[i])]

\* C33: every rocket, rainbow, bomb and propeller activation findMatches
\* returns originates at a cell of one of the returned matches, and no cell
\* is the origin of two activations.
C33_ActivationsFromMatches ==
  gameState = "removing"
    => LET origins == ActivationOrigins(findMatches(board))
       IN /\ SeqToSet(origins) \subseteq MatchedCells(board)
          /\ Cardinality(SeqToSet(origins)) = Len(origins)

(***************************************************************************)
(* C32.  A special token swept by another activation                       *)
(***************************************************************************)

\* p lies in the area of an activation of matchResult that starts elsewhere
SweptByOther(b, matchResult, p) ==
  \/ \E i \in 1 .. Len(matchResult.rocketActivations) :
       PosOf(matchResult.rocketActivations[i]) # p /\ p \in rocketArea(matchResult.rocketActivations[i])
  \/ \E i \in 1 .. Len(matchResult.rainbowActivations) :
       PosOf(matchResult.rainbowActivations[i]) # p /\ p \in rainbowArea(b, matchResult.rainbowActivations[i])
  \/ \E i \in 1 .. Len(matchResult.bombActivations) :
       /\ PosOf(matchResult.bombActivations[i]) # p
       /\ p \in Area(matchResult.bombActivations[i].row, matchResult.bombActivations[i].col, 1)
  \/ \E i \in 1 .. Len(matchResult.propellerActivations) :
       /\ PosOf(matchResult.propellerActivations[i]) # p
       /\ p \in Area(matchResult.propellerActivations[i].targetRow,
                     matchResult.propellerActivations[i].targetCol, 1)

\* p is a cell of a row run or a column run of three or more
OnRun(b, p) == Crossed(b, TRUE, p) \/ Crossed(b, FALSE, p)

\* the special tokens on no run that another activation sweeps
SweptSpecials(b, matchResult) ==
  {p \in AllPos : /\ b[p.row][p.col].specialType # "none"
                  /\ ~OnRun(b, p)
                  /\ SweptByOther(b, matchResult, p)}

\* C32: a special token that lies in another activation's sweep area and is
\* itself on no run of three is no origin of an activation of the round (so
\* it adds no area of its own to the clear set and nothing to the score), it
\* is removed if it carries no obstacle, and the round's clear set holds only
\* cells of the matches and of the areas of the recorded activations.
C32_OneGenerationPerPass ==
  gameState = "removing"
    => LET mr == findMatches(board)
       IN /\ \A p \in SweptSpecials(board, mr) :
               /\ p \notin SeqToSet(ActivationOrigins(mr))
               /\ p \notin MatchedCells(board)
               /\ ~hasObstacle(board[p.row][p.col])
                    => removeMatches(board, mr).board[p.row][p.col].specialType = "none"
          /\ removalState(board, mr).toRemove \subseteq explodingOf(board, mr)

\* a rocket on no run is swept by the activation of a matched special, and
\* its own row or column is not wholly in the round's clear set
C32_Witness ==
  /\ gameState = "removing"
  /\ \E p \in SweptSpecials(board, findMatches(board)) :
       /\ IsRocket(board[p.row][p.col].specialType)
       /\ ~hasObstacle(board[p.row][p.col])
       /\ ~(rocketArea([row |-> p.row, col |-> p.col, type |-> board[p.row][p.col].specialType])
             \subseteq removalState(board, findMatches(board)).toRemove)

(***************************************************************************)
(* C34.  The creations of findMatches on the board removeMatches returns   *)
(***************************************************************************)

\* C34: for every rainbow creation and every rocket creation findMatches
\* returns, the board removeMatches returns holds at that cell a rainbow of
\* the creation's colour, or a rocket of the creation's type with the colour
\* the cell had, and no obstacle.
C34_CreationsRealised ==
  gameState = "removing"
    => LET mr == findMatches(board)
           after == removeMatches(board, mr).board
       IN /\ \A i \in 1 .. Len(mr.rainbowCreations) :
               after[mr.rainbowCreations[i].row][mr.rainbowCreations[i].col]
                 = Blk(mr.rainbowCreations[i].color, "rainbow", NoObstacle)
          /\ \A i \in 1 .. Len(mr.rocketCreations) :
               after[mr.rocketCreations[i].row][mr.rocketCreations[i].col]
                 = Blk(board[mr.rocketCreations[i].row][mr.rocketCreations[i].col].color,
                       mr.rocketCreations[i].type, NoObstacle)

(***************************************************************************)
(* C35.  Objective progress                                                *)
(***************************************************************************)

\* current is within the target, completed says that the target is reached,
\* and a reachScore objective shows the score capped at the target
ProgressSound(progress, total) ==
  \A i \in 1 .. Len(progress) :
    /\ progress[i].current <= progress[i].target
    /\ progress[i].completed <=> progress[i].current >= progress[i].target
    /\ progress[i].objective.type = "reachScore"
         => progress[i].current = IF total < progress[i].target THEN total
                                  ELSE progress[i].target

C35_Step ==
  /\ ProgressSound(objectiveProgress', score')
  /\ ~ResetStep
       => /\ Len(objectiveProgress') = Len(objectiveProgress)
          /\ \A i \in 1 .. Len(objectiveProgress) :
               /\ objectiveProgress'[i].current >= objectiveProgress[i].current
               /\ objectiveProgress[i].completed => objectiveProgress'[i].completed

\* C35: within a session no objective's current ever decreases or exceeds its
\* target, completed is true exactly from the step on in which the
\* accumulated value reaches the target, and a reachScore objective's current
\* is min(score, target) after every step.
C35_ProgressMonotone == [][C35_Step]_vars

\* a reachScore objective is part-way: its current is the score, below the
\* target
C35_Witness ==
  /\ Len(objectiveProgress) = 1
  /\ objectiveProgress[1].objective.type = "reachScore"
  /\ objectiveProgress[1].current > 0
  /\ ~objectiveProgress[1].completed

\* a clearColor objective is part-way while the reachScore objective is
\* completed with the score beyond its target
C35_WitnessCapped ==
  /\ Len(objectiveProgress) = 2
  /\ objectiveProgress[1].current > 0
  /\ ~objectiveProgress[1].completed
  /\ objectiveProgress[2].completed
  /\ score > objectiveProgress[2].target

(***************************************************************************)
(* Sessions on a board whose specials lie apart                            *)
(***************************************************************************)
\* another outcome of the special seeding: a rocket on (0, 1) beside a
\* propeller on (0, 0), the other three rockets and the other propeller in
\* the bottom row, columns 4 .. 7
SpreadPlacement ==
  << Pos(0, 1), Pos(GRID_SIZE - 1, 5), Pos(GRID_SIZE - 1, 6), Pos(GRID_SIZE - 1, 7),
     Pos(0, 0), Pos(GRID_SIZE - 1, 4) >>

InitSpread ==
  /\ difficulty = "easy"
  /\ \E seed \in Seeds, flip \in 0 .. 1 :
       board = createInitialBoard(difficulty, seed, SpreadPlacement, RocketTypes(flip))
  /\ build = Built
  /\ hookStart

SpecSpread == InitSpread /\ [][Next]_vars

(***************************************************************************)
(* C36.  The two tokens of a fusion                                        *)
(***************************************************************************)

C36_Step ==
  (FusionPending /\ pendingSwap' = NoSwap /\ ~ResetStep)
    => \E t \in timers' \ timers :
         /\ t.kind = "comboRemove"
         /\ {pendingSwap.from, pendingSwap.to} \subseteq t.toRemove
         /\ \A p \in {pendingSwap.from, pendingSwap.to} :
              comboRemoval(t.board, t.toRemove)[p.row][p.col].specialType = "none"

\* C36: the clear set that a fusion hands to its removal step holds both
\* swapped positions, and after the removal neither of the two cells holds a
\* special token.
C36_FusionConsumesBoth == [][C36_Step]_vars

(***************************************************************************)
(* C37.  The move counter                                                  *)
(***************************************************************************)

\* a step that accepts a swap: a move is spent and the swap becomes pending
SwapAccepted == gameState = "idle" /\ gameState' = "animating" /\ pendingSwap'.some

\* C37: in classic mode movesRemaining is never negative: an accepted swap
\* takes exactly one move, no swap is accepted with 0 moves remaining, and no
\* step but an accepted swap or a reset changes movesRemaining.
C37_Step ==
  /\ movesRemaining' >= 0
  /\ SwapAccepted => movesRemaining > 0 /\ movesRemaining' = movesRemaining - 1
  /\ (~SwapAccepted /\ ~ResetStep) => movesRemaining' = movesRemaining

C37_MovesNeverNegative == [][C37_Step]_vars

(***************************************************************************)
(* C38.  The combo count at rest                                           *)
(***************************************************************************)

\* C38: whenever gameState is idle the combo count is 0.
C38_IdleComboZero == gameState = "idle" => combo = 0

(***************************************************************************)
(* Arcade sessions: the countdown in place of the move counter             *)
(***************************************************************************)
\* the setInterval callback of the countdown effect; the effect keeps the
\* interval only while the mode is arcade and the game is not over
countdownTick ==
  /\ isArcadeMode /\ ~isGameOver
  /\ timeRemaining # NoNumber
  /\ IF timeRemaining <= 1
     THEN timeRemaining' = 0 /\ isGameOver' = TRUE
     ELSE timeRemaining' = timeRemaining - 1 /\ isGameOver' = isGameOver
  /\ UNCHANGED <<board, gameState, score, combo, selectedBlock, pendingSwap, movesRemaining,
                 isLevelComplete, timers, resets, swapBase, config, gameMode,
                 objectiveProgress>>

\* swap requests of an arcade session, made while the score is below the cap
ArcadeSwipe ==
  /\ score < MaxArcadeScore
  /\ \E p \in SwapWindow, o \in SwapOffsets :
       handleSwipe(p.row, p.col, p.row + o[1], p.col + o[2])

InitArcade ==
  /\ difficulty = "easy"
  /\ \E seed \in Seeds, flip \in 0 .. 1 :
       board = createInitialBoard(difficulty, seed, SpecialPlacement, RocketTypes(flip))
  /\ build = Built
  /\ gameMode = "arcade"
  /\ hookState
  /\ objectiveProgress \in {initializeObjectiveProgress(o) : o \in ObjectiveLists}

\* an arcade session of a level with objectives
NextArcade ==
  \/ ArcadeSwipe
  \/ HandleSwapAnimationComplete
  \/ processMatches
  \/ Timeout
  \/ LevelCompleteTimeout
  \/ countdownTick

SpecArcade == InitArcade /\ [][NextArcade]_vars

(***************************************************************************)
(* C39.  Game over and level complete                                      *)
(***************************************************************************)

\* C39: isGameOver and isLevelComplete are never both true.
C39_OverXorComplete == ~(isGameOver /\ isLevelComplete)

====
